---- MODULE Spec2Model ----
(***************************************************************************)
(* The workbook generator generate_model.py as a state machine.            *)
(*                                                                         *)
(* The script runs top to bottom: it fills the Assumptions sheet, then the *)
(* Income Statement, the Balance Sheet, the Cash Flow Statement and the    *)
(* Notes, and saves the workbook.  Each of these sections is one action.   *)
(* A cell holds a string, a number or a formula; a formula is kept as the  *)
(* syntax tree of the text the script emits.  Once the workbook is saved   *)
(* the host spreadsheet opens it, builds its calculation chain and         *)
(* computes every cell; the user may then change a scenario toggle or an   *)
(* input cell, and the host recalculates.                                  *)
(*                                                                         *)
(* Every formula the script emits is built from +, -, *, / and AVERAGE     *)
(* over numbers, and from IF on a text comparison.  Cell values are        *)
(* computed in the prime field of order Modulus, the image of exact        *)
(* rational arithmetic under n/d |-> n * d^-1: an equation between exact   *)
(* cell values also holds between their images, and two images that differ *)
(* come from exact values that differ.                                     *)
(***************************************************************************)
EXTENDS Integers, Sequences, FiniteSets, TLC

VARIABLES pc, sheets, cells, wcount, reg, saved, chain, val, edits, snap,
          decl, run, prior

vars == <<pc, sheets, cells, wcount, reg, saved, chain, val, edits, snap,
          decl, run, prior>>

(***************************************************************************)
(* Bounds of the model.                                                    *)
(***************************************************************************)
\* Rows kept for each sheet (the longest sheet, Notes, ends at row 74).
MaxRow == 80
\* Number of cells the user changes after the workbook is opened.
MaxEdits == 2

(***************************************************************************)
(* Column layout.                                                          *)
(***************************************************************************)
LABEL_COL == 1
UNIT_COL == 2
HIST_START == 3
HIST_END == 7
FC_START == 8
FC_END == 12
MAX_COL == FC_END

FY_LABELS == <<"FY21", "FY22", "FY23", "FY24", "FY25",
               "FY26F", "FY27F", "FY28F", "FY29F", "FY30F">>

SheetA == "Assumptions"
SheetIS == "Income Statement"
SheetBS == "Balance Sheet"
SheetCF == "Cash Flow Statement"
SheetN == "Notes"
SheetNames == {SheetA, SheetIS, SheetBS, SheetCF, SheetN}

(***************************************************************************)
(* Cell contents and formula syntax trees.                                 *)
(***************************************************************************)
Empty == [k |-> "empty"]
Str(s) == [k |-> "str", s |-> s]
\* The number n/d.
Num(n, d) == [k |-> "num", n |-> n, d |-> d]
Whole(n) == Num(n, 1)
\* A formula cell, "=" followed by the expression e.
F(e) == [k |-> "f", e |-> e]

\* An unqualified reference such as H16 and an absolute one such as $B$5.
R(col, row) == [op |-> "ref", q |-> "", col |-> col, row |-> row, abs |-> FALSE]
AbsR(col, row) == [op |-> "ref", q |-> "", col |-> col, row |-> row, abs |-> TRUE]
\* A sheet-qualified reference such as 'Balance Sheet'!G17.
X(sheet, col, row) == [op |-> "ref", q |-> sheet, col |-> col, row |-> row, abs |-> FALSE]
K(n) == [op |-> "const", n |-> n]
Add(a, b) == [op |-> "add", a |-> a, b |-> b]
Sub(a, b) == [op |-> "sub", a |-> a, b |-> b]
Mul(a, b) == [op |-> "mul", a |-> a, b |-> b]
Div(a, b) == [op |-> "div", a |-> a, b |-> b]
Neg(a) == [op |-> "neg", a |-> a]
\* IF(a="s",t,e)
IfEq(a, s, t, e) == [op |-> "ifeq", a |-> a, s |-> s, t |-> t, e |-> e]
\* AVERAGE(c1 row : c2 row)
Avg(c1, c2, row) == [op |-> "avg", c1 |-> c1, c2 |-> c2, row |-> row]

\* A write of content v to the cell (row, col) of the sheet being filled.
W(row, col, v) == <<row, col, v>>

\* The concatenation of the sequences ss[lo..hi], by halves.
RECURSIVE FlattenRange(_, _, _)
FlattenRange(ss, lo, hi) ==
    IF lo > hi THEN <<>>
    ELSE IF lo = hi THEN ss[lo]
    ELSE LET mid == (lo + hi) \div 2
         IN FlattenRange(ss, lo, mid) \o FlattenRange(ss, mid + 1, hi)

Flatten(ss) == FlattenRange(ss, 1, Len(ss))

\* A sheet is a sequence of rows and a row a sequence of cells; a workbook
\* gives one sheet to each sheet name.
AsSeq(f) == SubSeq(f, 1, Len(f))
Grid(f(_, _)) == AsSeq([r \in 1..MaxRow |-> AsSeq([c \in 1..MAX_COL |-> f(r, c)])])
BySheet(f(_)) ==
    (SheetA :> f(SheetA)) @@ (SheetIS :> f(SheetIS)) @@ (SheetBS :> f(SheetBS))
    @@ (SheetCF :> f(SheetCF)) @@ (SheetN :> f(SheetN))

BlankSheet == Grid(LAMBDA r, c : Empty)
ZeroSheet == Grid(LAMBDA r, c : 0)

\* ws.cell(row=r, column=c, value=v) for each write of ws, in order: a later
\* write to the same cell replaces the earlier one.
\* f applied to the value of a, a being computed first.
Then(a, f(_)) == CHOOSE y \in {f(z) : z \in {a}} : TRUE

RECURSIVE PutRange(_, _, _, _)
PutRange(sheet, ws, lo, hi) ==
    IF lo > hi THEN sheet
    ELSE IF lo = hi THEN [sheet EXCEPT ![ws[lo][1]][ws[lo][2]] = ws[lo][3]]
    ELSE LET mid == (lo + hi) \div 2
         IN Then(PutRange(sheet, ws, lo, mid), LAMBDA first : PutRange(first, ws, mid + 1, hi))

PutAll(sheet, ws) == PutRange(sheet, ws, 1, Len(ws))

\* The number of writes each cell has received.
RECURSIVE CountRange(_, _, _, _)
CountRange(cnt, ws, lo, hi) ==
    IF lo > hi THEN cnt
    ELSE IF lo = hi THEN [cnt EXCEPT ![ws[lo][1]][ws[lo][2]] = @ + 1]
    ELSE LET mid == (lo + hi) \div 2
         IN Then(CountRange(cnt, ws, lo, mid),
                 LAMBDA first : CountRange(first, ws, mid + 1, hi))

CountAll(cnt, ws) == CountRange(cnt, ws, 1, Len(ws))

(***************************************************************************)
(* Arithmetic of the host evaluator.                                       *)
(***************************************************************************)
Modulus == 46337
\* An error value (#DIV/0!, #VALUE!), a cell not calculated, a text cell.
Err == -1
Pending == -2
Text == -3

FAdd(a, b) == (a + b) % Modulus
FSub(a, b) == (a - b + Modulus) % Modulus
FMul(a, b) == (a * b) % Modulus
RECURSIVE FPow(_, _)
FPow(a, n) ==
    IF n = 0 THEN 1
    ELSE LET h == FPow(a, n \div 2)
             hh == FMul(h, h)
         IN IF n % 2 = 1 THEN FMul(hh, a) ELSE hh
\* The inverses of the small divisors the formulas use, computed once.
InvSmall == [a \in 1..400 |-> FPow(a, Modulus - 2)]
FInv(a) == IF a \in DOMAIN InvSmall THEN InvSmall[a] ELSE FPow(a, Modulus - 2)
FDiv(a, b) == FMul(a, FInv(b))
\* The value of the number n/d.
Q(n, d) == FDiv(n % Modulus, d % Modulus)

Lift(a, b, r) ==
    IF a = Pending \/ b = Pending THEN Pending
    ELSE IF a < 0 \/ b < 0 THEN Err
    ELSE r

CellOf(cs, s, row, col) ==
    IF row \in 1..MaxRow /\ col \in 1..MAX_COL THEN cs[s][row][col] ELSE Empty

ValOf(v, s, row, col) ==
    IF row \in 1..MaxRow /\ col \in 1..MAX_COL THEN v[s][row][col] ELSE 0

\* AVERAGE over a row range takes the cells that hold a number (a literal or
\* a calculated formula) and skips the empty and the text cells.
Counted(cs, s, row, c1, c2) ==
    {c \in c1..c2 : CellOf(cs, s, row, c).k \in {"num", "f"}}

RECURSIVE SumVals(_, _, _, _, _, _)
SumVals(cs, v, s, row, c1, c2) ==
    IF c1 > c2 THEN 0
    ELSE LET x == IF c1 \in Counted(cs, s, row, c1, c1) THEN ValOf(v, s, row, c1) ELSE 0
             y == SumVals(cs, v, s, row, c1 + 1, c2)
         IN Lift(x, y, FAdd(x, y))

\* The value of expression e in a formula of sheet sh, given the cell
\* contents cs and the values v of the cells calculated so far.
RECURSIVE Eval(_, _, _, _)
Eval(e, sh, cs, v) ==
    CASE e.op = "ref" ->
           ValOf(v, IF e.q = "" THEN sh ELSE e.q, e.row, e.col)
      [] e.op = "const" -> e.n % Modulus
      [] e.op = "neg" ->
           LET a == Eval(e.a, sh, cs, v) IN Lift(a, 0, FSub(0, a))
      [] e.op = "add" ->
           LET a == Eval(e.a, sh, cs, v)
               b == Eval(e.b, sh, cs, v) IN Lift(a, b, FAdd(a, b))
      [] e.op = "sub" ->
           LET a == Eval(e.a, sh, cs, v)
               b == Eval(e.b, sh, cs, v) IN Lift(a, b, FSub(a, b))
      [] e.op = "mul" ->
           LET a == Eval(e.a, sh, cs, v)
               b == Eval(e.b, sh, cs, v) IN Lift(a, b, FMul(a, b))
      [] e.op = "div" ->
           LET a == Eval(e.a, sh, cs, v)
               b == Eval(e.b, sh, cs, v)
           IN Lift(a, b, IF b = 0 THEN Err ELSE FDiv(a, b))
      [] e.op = "avg" ->
           LET t == SumVals(cs, v, sh, e.row, e.c1, e.c2)
               n == Cardinality(Counted(cs, sh, e.row, e.c1, e.c2))
           IN Lift(t, 0, IF n = 0 THEN Err ELSE FDiv(t, n))
      [] e.op = "ifeq" ->
           LET c == CellOf(cs, IF e.a.q = "" THEN sh ELSE e.a.q, e.a.row, e.a.col)
           IN IF c.k = "f" /\ ValOf(v, IF e.a.q = "" THEN sh ELSE e.a.q, e.a.row, e.a.col) = Pending
              THEN Pending
              ELSE IF c.k = "str" /\ c.s = e.s THEN Eval(e.t, sh, cs, v)
              ELSE Eval(e.e, sh, cs, v)

\* The cells expression e of sheet sh refers to.
RECURSIVE Refs(_, _)
Refs(e, sh) ==
    CASE e.op = "ref" -> {<<IF e.q = "" THEN sh ELSE e.q, e.row, e.col>>}
      [] e.op = "const" -> {}
      [] e.op = "neg" -> Refs(e.a, sh)
      [] e.op \in {"add", "sub", "mul", "div"} -> Refs(e.a, sh) \cup Refs(e.b, sh)
      [] e.op = "avg" -> {<<sh, e.row, c>> : c \in e.c1..e.c2}
      [] e.op = "ifeq" -> Refs(e.a, sh) \cup Refs(e.t, sh) \cup Refs(e.e, sh)

FormulaCells(cs) ==
    {x \in SheetNames \X (1..MaxRow) \X (1..MAX_COL) : cs[x[1]][x[2]][x[3]].k = "f"}

RefsOfCell(cs, x) == Refs(cs[x[1]][x[2]][x[3]].e, x[1])

\* Every cell of the workbook, sheet by sheet and row by row.
SheetOrder == <<SheetA, SheetIS, SheetBS, SheetCF, SheetN>>
AllCells ==
    [i \in 1..(Len(SheetOrder) * MaxRow * MAX_COL) |->
        << SheetOrder[((i - 1) \div (MaxRow * MAX_COL)) + 1],
           (((i - 1) \div MAX_COL) % MaxRow) + 1,
           ((i - 1) % MAX_COL) + 1 >>]

InSet(S, x) == x \in S
SetToSeq(S) == SelectSeq(AllCells, LAMBDA x : InSet(S, x))

\* The calculation chain: the formula cells in an order in which each comes
\* after the formula cells it refers to.  A cell on a reference cycle, or
\* behind one, is in no such order and is left out.
RECURSIVE ChainFrom(_, _, _, _)
ChainFrom(deps, done, acc, rest) ==
    LET ready == {x \in rest : deps[x] \subseteq done}
    IN IF ready = {} THEN acc
       ELSE ChainFrom(deps, done \cup ready, acc \o SetToSeq(ready), rest \ ready)

CalcChain(cs) ==
    LET fc == FormulaCells(cs)
        deps == [x \in fc |-> RefsOfCell(cs, x) \cap fc]
    IN ChainFrom(deps, {}, <<>>, fc)

BaseVal(c) ==
    CASE c.k = "empty" -> 0
      [] c.k = "num" -> Q(c.n, c.d)
      [] c.k = "str" -> Text
      [] c.k = "f" -> Pending

\* The cells ch[lo..hi] of the chain are computed one after the other.
RECURSIVE CalcRange(_, _, _, _, _)
CalcRange(cs, ch, v, lo, hi) ==
    IF lo > hi THEN v
    ELSE IF lo = hi
    THEN LET x == ch[lo]
         IN [v EXCEPT ![x[1]][x[2]][x[3]] = Eval(cs[x[1]][x[2]][x[3]].e, x[1], cs, v)]
    ELSE LET mid == (lo + hi) \div 2
         IN Then(CalcRange(cs, ch, v, lo, mid),
                 LAMBDA first : CalcRange(cs, ch, first, mid + 1, hi))

CalcAlong(cs, ch, v) == CalcRange(cs, ch, v, 1, Len(ch))

\* The first calculation: literals take their value, formulas follow the
\* chain; a formula cell outside the chain stays Pending.
Recalc(cs, ch) ==
    CalcAlong(cs, ch,
              BySheet(LAMBDA s : Grid(LAMBDA r, c : BaseVal(cs[s][r][c]))))

\* The recalculation after the cell x was overwritten by a literal: x takes
\* its new value and every cell of the chain is computed again, in order.
RecalcAfter(cs, ch, v, x) ==
    CalcAlong(cs, ch, [v EXCEPT ![x[1]][x[2]][x[3]] = BaseVal(cs[x[1]][x[2]][x[3]])])

(***************************************************************************)
(* 1. Assumptions & drivers.                                               *)
(***************************************************************************)
TITLE_A == "Transurban Group (ASX: TCL) - Forecast Assumptions & Key Drivers"
SUBTITLE_A == "All figures in A$ millions unless otherwise stated.  Fiscal year ends 30 June."

toggle_items ==
    << <<5, "Toll revenue growth method">>,
       <<6, "Other revenue growth method">>,
       <<7, "Opex % method">>,
       <<8, "D&A % method">>,
       <<9, "Cost of debt method">>,
       <<10, "Tax rate method">> >>

\* The token the active rows compare the toggle cell with, and the token
\* the script writes to every toggle cell.
TOKEN_AVG == "3yr Avg"
TOKEN_DEFAULT == "Forecast"

ToggleWrites ==
    Flatten([i \in 1..Len(toggle_items) |->
        << W(toggle_items[i][1], LABEL_COL, Str(toggle_items[i][2])),
           W(toggle_items[i][1], UNIT_COL, Str(TOKEN_DEFAULT)) >>])

\* The fiscal-year header cells of a header row.
FYHeaderWrites(r) == [i \in 1..Len(FY_LABELS) |-> W(r, HIST_START + i - 1, Str(FY_LABELS[i]))]

\* _write_values: vals[i] = <<n, d>> is the number n/d; a percentage is
\* stored as the fraction v / 100.
write_values(row, vals, is_pct) ==
    [i \in 1..Len(vals) |->
        W(row, HIST_START + i - 1,
          IF is_pct THEN Num(vals[i][1], vals[i][2] * 100)
          ELSE Num(vals[i][1], vals[i][2]))]

\* Variants of the forecast cell of an active row that the generator does
\* not write: the two branches exchanged, a window that moves with the
\* forecast period, and direct input only for the default token.
ActiveForecastFormula_Exchanged(col, input_row, toggle_cell) ==
    F(IfEq(AbsR(toggle_cell[1], toggle_cell[2]), TOKEN_AVG,
           R(col, input_row),
           Avg(HIST_END - 2, HIST_END, input_row)))
ActiveForecastFormula_Rolling(col, input_row, toggle_cell) ==
    F(IfEq(AbsR(toggle_cell[1], toggle_cell[2]), TOKEN_AVG,
           Avg(col - 3, col - 1, input_row),
           R(col, input_row)))
ActiveForecastFormula_DefaultOnly(col, input_row, toggle_cell) ==
    F(IfEq(AbsR(toggle_cell[1], toggle_cell[2]), TOKEN_DEFAULT,
           R(col, input_row),
           Avg(HIST_END - 2, HIST_END, input_row)))

\* The forecast cell of an active row in column col:
\* =IF(toggle="3yr Avg",AVERAGE(E<input>:G<input>),<col><input>)
ActiveForecastFormula(col, input_row, toggle_cell) ==
    F(IfEq(AbsR(toggle_cell[1], toggle_cell[2]), TOKEN_AVG,
           Avg(HIST_END - 2, HIST_END, input_row),
           R(col, input_row)))

\* The historical cell of an active row in column col: =<col><input>
ActiveHistFormula(col, input_row) == F(R(col, input_row))

\* A variant that wires every active row to the first toggle cell, $B$5.
write_active_row_FirstToggle(active_row, input_row, toggle_cell) ==
    [i \in 1..5 |-> W(active_row, HIST_START + i - 1,
                      ActiveHistFormula(HIST_START + i - 1, input_row))]
    \o
    [i \in 1..5 |-> W(active_row, FC_START + i - 1,
                      ActiveForecastFormula(FC_START + i - 1, input_row, <<2, 5>>))]
\* _write_active_row
write_active_row(active_row, input_row, toggle_cell) ==
    [i \in 1..5 |-> W(active_row, HIST_START + i - 1,
                      ActiveHistFormula(HIST_START + i - 1, input_row))]
    \o
    [i \in 1..5 |-> W(active_row, FC_START + i - 1,
                      ActiveForecastFormula(FC_START + i - 1, input_row, toggle_cell))]

\* Tenths and whole numbers as <<n, d>> pairs.
T10(s) == [i \in DOMAIN s |-> <<s[i], 10>>]
I1(s) == [i \in DOMAIN s |-> <<s[i], 1>>]
Rep(x) == [i \in 1..10 |-> <<x, 1>>]

SectionRow(row, label) == [kind |-> "section", row |-> row, label |-> label]
InputRow(row, label, unit, vals, is_pct) ==
    [kind |-> "input", row |-> row, label |-> label, unit |-> unit,
     vals |-> vals, is_pct |-> is_pct]
ActiveRow(row, label, unit, input_row, toggle_cell) ==
    [kind |-> "active", row |-> row, label |-> label, unit |-> unit,
     input_row |-> input_row, toggle_cell |-> toggle_cell]

\* The rows of the Assumptions sheet below the header, in the order the
\* script writes them.
assumption_rows ==
    << SectionRow(14, "REVENUE DRIVERS"),
       InputRow(15, "Toll revenue growth (input)", "%",
                T10(<<-42, 151, 221, 87, 62, 55, 50, 45, 40, 38>>), TRUE),
       ActiveRow(16, "Toll revenue growth (active)", "%", 15, <<2, 5>>),
       InputRow(17, "Other revenue growth (input)", "%",
                T10(<<20, -25, 68, -18, 104, 30, 30, 30, 30, 30>>), TRUE),
       ActiveRow(18, "Other revenue growth (active)", "%", 17, <<2, 6>>),
       SectionRow(20, "OPERATING COST DRIVERS"),
       InputRow(21, "Opex as % of revenue (input)", "%",
                T10(<<352, 325, 315, 307, 308, 305, 300, 295, 290, 288>>), TRUE),
       ActiveRow(22, "Opex as % of revenue (active)", "%", 21, <<2, 7>>),
       InputRow(23, "Employee costs as % of revenue", "%",
                T10(<<85, 80, 74, 73, 72, 72, 70, 69, 68, 67>>), TRUE),
       InputRow(24, "Employee costs share of total opex", "%",
                I1(<<24, 25, 24, 24, 23, 25, 25, 25, 25, 25>>), TRUE),
       InputRow(25, "Road ops share of total opex", "%",
                I1(<<34, 33, 33, 32, 31, 33, 33, 33, 33, 33>>), TRUE),
       SectionRow(27, "DEPRECIATION & AMORTISATION"),
       InputRow(28, "D&A as % of NCA (input)", "%",
                T10(<<27, 27, 27, 27, 28, 28, 28, 28, 28, 28>>), TRUE),
       ActiveRow(29, "D&A as % of NCA (active)", "%", 28, <<2, 8>>),
       InputRow(30, "D&A allocation to PP&E", "%", Rep(40), TRUE),
       InputRow(31, "D&A allocation to intangibles", "%", Rep(60), TRUE),
       SectionRow(33, "FINANCING ASSUMPTIONS"),
       InputRow(34, "Average cost of debt (input)", "%",
                T10(<<46, 40, 42, 45, 46, 47, 47, 48, 48, 48>>), TRUE),
       ActiveRow(35, "Average cost of debt (active)", "%", 34, <<2, 9>>),
       InputRow(36, "Effective tax rate (input)", "%",
                T10(<<-15, 140, 143, 144, 150, 150, 150, 150, 150, 150>>), TRUE),
       ActiveRow(37, "Effective tax rate (active)", "%", 36, <<2, 10>>),
       InputRow(38, "Statutory tax rate", "%", Rep(30), TRUE),
       InputRow(39, "Current borrowings as % of total debt", "%",
                T10(<<60, 55, 55, 50, 50, 50, 50, 50, 50, 50>>), TRUE),
       InputRow(40, "DRP / dilution rate", "%", Rep(1), TRUE),
       SectionRow(42, "BALANCE SHEET DRIVERS"),
       InputRow(43, "Capex (maintenance + growth)", "A$m",
                I1(<<628, 1092, 1805, 1420, 1200, 1300, 1350, 1400, 1250, 1200>>), FALSE),
       InputRow(44, "Trade receivables days", "days",
                I1(<<28, 26, 25, 24, 24, 24, 24, 24, 24, 24>>), FALSE),
       InputRow(45, "Trade payables days", "days",
                I1(<<55, 52, 50, 48, 48, 48, 48, 48, 48, 48>>), FALSE),
       InputRow(46, "Other current assets growth rate", "%", Rep(3), TRUE),
       InputRow(47, "JV investments growth rate", "%", Rep(-2), TRUE),
       InputRow(48, "Other NCA growth rate", "%", Rep(2), TRUE),
       InputRow(49, "Other current liabilities growth rate", "%", Rep(3), TRUE),
       InputRow(50, "Other NCL growth rate", "%", Rep(2), TRUE),
       SectionRow(52, "CASH FLOW / CAPITAL STRUCTURE"),
       InputRow(53, "Dividend per security (DPS)", "Ac",
                T10(<<410, 530, 620, 645, 660, 680, 700, 720, 740, 760>>), FALSE),
       InputRow(54, "Securities on issue (approx)", "m",
                I1(<<1932, 1948, 1964, 1978, 1990, 2000, 2010, 2020, 2025, 2030>>), FALSE),
       InputRow(55, "Net debt issuance / (repayment)", "A$m",
                I1(<<1200, 2050, 2800, 600, 300, 400, 350, 300, 200, 100>>), FALSE),
       InputRow(56, "Other operating adj. growth rate", "%", Rep(2), TRUE),
       InputRow(57, "Equity issuance rate (DRP)", "%", Rep(1), TRUE),
       SectionRow(59, "NOTES ASSUMPTIONS"),
       InputRow(60, "Construction revenue growth", "%", Rep(3), TRUE),
       InputRow(61, "Debt maturity 1-2yr as % of total", "%",
                T10(<<53, 49, 48, 47, 42, 50, 50, 50, 50, 50>>), TRUE),
       InputRow(62, "Debt maturity 2-5yr as % of total", "%",
                I1(<<25, 22, 22, 26, 26, 26, 26, 26, 26, 26>>), TRUE),
       InputRow(63, "Capitalised borrowing costs factor", "%", Rep(15), TRUE),
       InputRow(64, "Forecast non-deductible amortisation", "A$m", Rep(190), FALSE),
       InputRow(65, "Forecast tax concessions", "A$m", Rep(-40), FALSE),
       InputRow(66, "Forecast other perm. differences", "A$m", Rep(8), FALSE),
       InputRow(67, "Capital commitments multiple of capex", "x",
                [i \in 1..10 |-> <<12, 10>>], FALSE),
       InputRow(68, "Operating lease growth rate", "%", Rep(3), TRUE),
       InputRow(69, "Forecast contingent liabilities", "A$m", Rep(170), FALSE) >>

AssumptionRowWrites(a) ==
    CASE a.kind = "section" -> << W(a.row, LABEL_COL, Str(a.label)) >>
      [] a.kind = "input" ->
           << W(a.row, LABEL_COL, Str(a.label)), W(a.row, UNIT_COL, Str(a.unit)) >>
           \o write_values(a.row, a.vals, a.is_pct)
      [] a.kind = "active" ->
           << W(a.row, LABEL_COL, Str(a.label)), W(a.row, UNIT_COL, Str(a.unit)) >>
           \o write_active_row(a.row, a.input_row, a.toggle_cell)

\* Every write to the Assumptions sheet, in the script's order.
AssumptionsWrites ==
    << W(1, LABEL_COL, Str(TITLE_A)), W(2, LABEL_COL, Str(SUBTITLE_A)),
       W(4, LABEL_COL, Str("SCENARIO TOGGLES")) >>
    \o ToggleWrites
    \o << W(12, LABEL_COL, Str("Assumption / Driver")), W(12, UNIT_COL, Str("Unit")) >>
    \o FYHeaderWrites(12)
    \o Flatten([i \in 1..Len(assumption_rows) |-> AssumptionRowWrites(assumption_rows[i])])

\* Assumption rows referenced from the other sheets.
AROW_TOLL_GR == 16
AROW_OTHER_GR == 18
AROW_OPEX_PCT == 22
AROW_EMP_PCT == 23
AROW_EMP_SHARE == 24
AROW_ROAD_SHARE == 25
AROW_DA_PCT == 29
AROW_DA_PPE == 30
AROW_DA_INTANG == 31
AROW_COD == 35
AROW_TAX == 37
AROW_STAT_TAX == 38
AROW_CURR_BORROW_PCT == 39
AROW_DRP_RATE == 40
AROW_CAPEX == 43
AROW_REC_DAYS == 44
AROW_PAY_DAYS == 45
AROW_OCA_GR == 46
AROW_JV_GR == 47
AROW_ONCA_GR == 48
AROW_OCL_GR == 49
AROW_ONCL_GR == 50
AROW_DPS == 53
AROW_SHARES == 54
AROW_NET_DEBT == 55
AROW_OTHER_OPS_GR == 56
AROW_EQUITY_ISS == 57
AROW_CONSTR_GR == 60
AROW_MAT_1_2 == 61
AROW_MAT_2_5 == 62
AROW_CAP_BORR == 63
AROW_NON_DED == 64
AROW_TAX_CONC == 65
AROW_OTHER_PERM == 66
AROW_CAP_COMMIT == 67
AROW_OP_LEASE_GR == 68
AROW_CONTINGENT == 69

\* A variant that addresses the row below.
A_RowBelow(col, row) == X(SheetA, col, row + 1)
\* Assumptions!<col><row>
A(col, row) == X(SheetA, col, row)

(***************************************************************************)
(* Statements: line items, the label-to-row registry, the walk that writes *)
(* labels, units and historical values.                                    *)
(***************************************************************************)
\* A line item (label, unit, hist, is_section, is_total); unit "" and hist
\* <<>> stand for None.
Item(label, unit, hist, is_section, is_total) ==
    [label |-> label, unit |-> unit, hist |-> hist,
     is_section |-> is_section, is_total |-> is_total]

\* REG = {}; r = start; for each item: REG[label] = r; r += 1.  A label
\* declared twice keeps the row of its last declaration.
RECURSIVE RegistryUpTo(_, _, _)
RegistryUpTo(labels, start, k) ==
    IF k = 0 THEN << >>
    ELSE (labels[k] :> (start + k - 1)) @@ RegistryUpTo(labels, start, k - 1)
Registry(labels, start) == RegistryUpTo(labels, start, Len(labels))

Labels(items) == [i \in DOMAIN items |-> items[i].label]

\* The writes of the walk over a statement's items, starting at row start.
ItemWrites(it, r) ==
    << W(r, LABEL_COL, Str(it.label)) >>
    \o (IF it.unit # "" THEN << W(r, UNIT_COL, Str(it.unit)) >> ELSE <<>>)
    \o [i \in 1..Len(it.hist) |-> W(r, HIST_START + i - 1, Whole(it.hist[i]))]

WalkWrites(items, start) ==
    Flatten([i \in 1..Len(items) |-> ItemWrites(items[i], start + i - 1)])

(***************************************************************************)
(* 2. Income Statement.                                                    *)
(***************************************************************************)
TITLE_IS == "Transurban Group - Income Statement"
SUBTITLE_FY == "A$ millions  |  Fiscal year ends 30 June"

hist_toll_rev == <<2459, 2830, 3455, 3756, 3990>>
hist_other_rev == <<319, 311, 332, 326, 360>>
hist_total_rev == [i \in 1..5 |-> hist_toll_rev[i] + hist_other_rev[i]]

hist_employee == <<-236, -251, -280, -298, -313>>
hist_road_ops == <<-340, -333, -380, -395, -418>>
hist_corp_admin == <<-401, -436, -535, -562, -608>>
hist_total_opex == [i \in 1..5 |-> hist_employee[i] + hist_road_ops[i] + hist_corp_admin[i]]

hist_ebitda == [i \in 1..5 |-> hist_total_rev[i] + hist_total_opex[i]]
hist_da == <<-856, -880, -905, -930, -958>>
hist_ebit == [i \in 1..5 |-> hist_ebitda[i] + hist_da[i]]

hist_net_finance == <<-907, -821, -963, -1093, -1150>>
hist_pbt == [i \in 1..5 |-> hist_ebit[i] + hist_net_finance[i]]
hist_tax == <<7, -141, -270, -249, -282>>
hist_npat == [i \in 1..5 |-> hist_pbt[i] + hist_tax[i]]

IS_START == 5

is_items ==
    << Item("Revenue", "", <<>>, TRUE, FALSE),
       Item("Toll revenue", "A$m", hist_toll_rev, FALSE, FALSE),
       Item("Other revenue", "A$m", hist_other_rev, FALSE, FALSE),
       Item("Total Revenue", "A$m", hist_total_rev, FALSE, TRUE),
       Item("", "", <<>>, FALSE, FALSE),
       Item("Operating Expenses", "", <<>>, TRUE, FALSE),
       Item("Employee costs", "A$m", hist_employee, FALSE, FALSE),
       Item("Road operating costs", "A$m", hist_road_ops, FALSE, FALSE),
       Item("Corporate & admin costs", "A$m", hist_corp_admin, FALSE, FALSE),
       Item("Total Operating Expenses", "A$m", hist_total_opex, FALSE, TRUE),
       Item("", "", <<>>, FALSE, FALSE),
       Item("EBITDA", "A$m", hist_ebitda, FALSE, TRUE),
       Item("Depreciation & amortisation", "A$m", hist_da, FALSE, FALSE),
       Item("EBIT", "A$m", hist_ebit, FALSE, TRUE),
       Item("", "", <<>>, FALSE, FALSE),
       Item("Net finance costs", "A$m", hist_net_finance, FALSE, FALSE),
       Item("Profit / (Loss) before tax", "A$m", hist_pbt, FALSE, TRUE),
       Item("Income tax (expense) / benefit", "A$m", hist_tax, FALSE, FALSE),
       Item("Net Profit / (Loss) After Tax", "A$m", hist_npat, FALSE, TRUE) >>

\* Row positions of the Balance Sheet and the Cash Flow Statement computed
\* from label lists before those sheets exist.
bs_labels ==
    << "ASSETS", "Current Assets", "Cash & cash equivalents",
       "Trade & other receivables", "Other current assets", "Total Current Assets",
       "", "Non-Current Assets", "Property, plant & equipment",
       "Intangible assets (concessions)", "Investments in joint ventures",
       "Other non-current assets", "Total Non-Current Assets", "",
       "Total Assets", "", "LIABILITIES", "Current Liabilities",
       "Trade & other payables", "Current borrowings", "Other current liabilities",
       "Total Current Liabilities", "", "Non-Current Liabilities",
       "Non-current borrowings", "Other non-current liabilities",
       "Total Non-Current Liabilities",
       "Total Borrowings (current + non-current)", "", "Total Liabilities",
       "", "EQUITY", "Share capital", "Retained earnings / (losses)",
       "Reserves", "Total Equity", "", "Total Liabilities & Equity",
       "", "Balance Sheet Check (Assets - L&E)" >>
bs_row_map == Registry(bs_labels, 5)

cf_labels ==
    << "OPERATING ACTIVITIES", "Net profit / (loss) after tax", "Add back: D&A",
       "Changes in working capital", "Other operating adjustments",
       "Net Cash from Operating Activities", "",
       "INVESTING ACTIVITIES", "Capital expenditure", "Other investing activities",
       "Net Cash from Investing Activities", "",
       "FINANCING ACTIVITIES", "Proceeds from / (repayment of) borrowings",
       "Dividends / distributions paid", "Equity issuance (DRP & placements)",
       "Net Cash from Financing Activities", "",
       "Net increase / (decrease) in cash", "FX & other adjustments",
       "Opening cash balance", "Closing Cash Balance" >>
cf_row_map == Registry(cf_labels, 5)

BS_NCA_ROW == bs_row_map["Total Non-Current Assets"]
BS_DEBT_ROW == bs_row_map["Total Borrowings (current + non-current)"]
CF_CLOSE_CASH_ROW == cf_row_map["Closing Cash Balance"]

\* Labels the Income Statement section looks up in IS_ROW.
IS_LOOKUPS ==
    {"Toll revenue", "Other revenue", "Total Revenue", "Employee costs",
     "Road operating costs", "Corporate & admin costs", "Total Operating Expenses",
     "EBITDA", "Depreciation & amortisation", "EBIT", "Net finance costs",
     "Profit / (Loss) before tax", "Income tax (expense) / benefit",
     "Net Profit / (Loss) After Tax"}

\* The forecast formulas of the Income Statement in column col; rw is
\* IS_ROW.
\* A variant that grows toll revenue by the raw input row of toll growth.
IS_TollRevenue_RawInput(rw, col) ==
    F(Mul(R(col - 1, rw["Toll revenue"]), Add(K(1), A(col, AROW_TOLL_GR - 1))))
\* =<prev><toll>*(1+Assumptions!<col><AROW_TOLL_GR>)
IS_TollRevenue(rw, col) ==
    F(Mul(R(col - 1, rw["Toll revenue"]), Add(K(1), A(col, AROW_TOLL_GR))))
IS_OtherRevenue(rw, col) ==
    F(Mul(R(col - 1, rw["Other revenue"]), Add(K(1), A(col, AROW_OTHER_GR))))
IS_TotalRevenue(rw, col) ==
    F(Add(R(col, rw["Toll revenue"]), R(col, rw["Other revenue"])))
\* =-<col><trev>*Assumptions!<col><OPEX_PCT>*Assumptions!<col><EMP_SHARE>
IS_EmployeeCosts(rw, col) ==
    F(Mul(Mul(Neg(R(col, rw["Total Revenue"])), A(col, AROW_OPEX_PCT)),
          A(col, AROW_EMP_SHARE)))
IS_RoadCosts(rw, col) ==
    F(Mul(Mul(Neg(R(col, rw["Total Revenue"])), A(col, AROW_OPEX_PCT)),
          A(col, AROW_ROAD_SHARE)))
\* A variant that gives corporate & admin a share of its own, 42% of opex.
IS_CorpAdmin_OwnShare(rw, col) ==
    F(Mul(Mul(Neg(R(col, rw["Total Revenue"])), A(col, AROW_OPEX_PCT)),
          Div(K(42), K(100))))
\* =-<col><trev>*Assumptions!<col><OPEX_PCT>-<col><emp>-<col><road>
IS_CorpAdmin(rw, col) ==
    F(Sub(Sub(Mul(Neg(R(col, rw["Total Revenue"])), A(col, AROW_OPEX_PCT)),
              R(col, rw["Employee costs"])),
          R(col, rw["Road operating costs"])))
IS_TotalOpex(rw, col) ==
    F(Add(Add(R(col, rw["Employee costs"]), R(col, rw["Road operating costs"])),
          R(col, rw["Corporate & admin costs"])))
IS_EBITDA(rw, col) ==
    F(Add(R(col, rw["Total Revenue"]), R(col, rw["Total Operating Expenses"])))
\* A variant that depreciates the assets of the same period.
IS_DA_SamePeriod(rw, col) ==
    F(Mul(Neg(X(SheetBS, col, BS_NCA_ROW)), A(col, AROW_DA_PCT)))
\* =-'Balance Sheet'!<prev><BS_NCA_ROW>*Assumptions!<col><AROW_DA_PCT>
IS_DA(rw, col) ==
    F(Mul(Neg(X(SheetBS, col - 1, BS_NCA_ROW)), A(col, AROW_DA_PCT)))
IS_EBIT(rw, col) ==
    F(Add(R(col, rw["EBITDA"]), R(col, rw["Depreciation & amortisation"])))
\* =-'Balance Sheet'!<prev><BS_DEBT_ROW>*Assumptions!<col><AROW_COD>
IS_NetFinance(rw, col) ==
    F(Mul(Neg(X(SheetBS, col - 1, BS_DEBT_ROW)), A(col, AROW_COD)))
IS_PBT(rw, col) ==
    F(Add(R(col, rw["EBIT"]), R(col, rw["Net finance costs"])))
IS_Tax(rw, col) ==
    F(Mul(Neg(R(col, rw["Profit / (Loss) before tax"])), A(col, AROW_TAX)))
IS_NPAT(rw, col) ==
    F(Add(R(col, rw["Profit / (Loss) before tax"]),
          R(col, rw["Income tax (expense) / benefit"])))

\* One pass of the forecast loop (fc_idx = col - FC_START).
ISForecastWrites(rw, col) ==
    << W(rw["Toll revenue"], col, IS_TollRevenue(rw, col)),
       W(rw["Other revenue"], col, IS_OtherRevenue(rw, col)),
       W(rw["Total Revenue"], col, IS_TotalRevenue(rw, col)),
       W(rw["Employee costs"], col, IS_EmployeeCosts(rw, col)),
       W(rw["Road operating costs"], col, IS_RoadCosts(rw, col)),
       W(rw["Corporate & admin costs"], col, IS_CorpAdmin(rw, col)),
       W(rw["Total Operating Expenses"], col, IS_TotalOpex(rw, col)),
       W(rw["EBITDA"], col, IS_EBITDA(rw, col)),
       W(rw["Depreciation & amortisation"], col, IS_DA(rw, col)),
       W(rw["EBIT"], col, IS_EBIT(rw, col)),
       W(rw["Net finance costs"], col, IS_NetFinance(rw, col)),
       W(rw["Profit / (Loss) before tax"], col, IS_PBT(rw, col)),
       W(rw["Income tax (expense) / benefit"], col, IS_Tax(rw, col)),
       W(rw["Net Profit / (Loss) After Tax"], col, IS_NPAT(rw, col)) >>

ISHeaderWrites ==
    << W(1, LABEL_COL, Str(TITLE_IS)), W(2, LABEL_COL, Str(SUBTITLE_FY)),
       W(4, LABEL_COL, Str("Income Statement")), W(4, UNIT_COL, Str("")) >>
    \o FYHeaderWrites(4)

\* Every write to the Income Statement, in the script's order.
ISWrites(items, rw) ==
    ISHeaderWrites
    \o WalkWrites(items, IS_START)
    \o Flatten([i \in 1..5 |-> ISForecastWrites(rw, FC_START + i - 1)])

(***************************************************************************)
(* 3. Balance Sheet.                                                       *)
(***************************************************************************)
TITLE_BS == "Transurban Group - Balance Sheet"
SUBTITLE_BS == "A$ millions  |  As at 30 June"

hist_cash == <<2548, 3145, 2780, 2350, 2520>>
hist_recv == <<213, 224, 260, 269, 286>>
hist_other_ca == <<195, 210, 225, 230, 240>>
hist_total_ca == [i \in 1..5 |-> hist_cash[i] + hist_recv[i] + hist_other_ca[i]]

hist_ppe == <<6125, 6850, 7900, 8100, 8050>>
hist_intangibles == <<22450, 23100, 24200, 24650, 24800>>
hist_invest_jv == <<1820, 1750, 1680, 1620, 1580>>
hist_other_nca == <<1250, 1380, 1520, 1580, 1620>>
hist_total_nca ==
    [i \in 1..5 |-> hist_ppe[i] + hist_intangibles[i] + hist_invest_jv[i] + hist_other_nca[i]]

hist_total_assets == [i \in 1..5 |-> hist_total_ca[i] + hist_total_nca[i]]

hist_payables == <<485, 510, 555, 530, 550>>
hist_current_debt == <<1250, 1400, 1600, 1300, 1200>>
hist_other_cl == <<580, 620, 680, 710, 740>>
hist_total_cl == [i \in 1..5 |-> hist_payables[i] + hist_current_debt[i] + hist_other_cl[i]]

hist_nc_debt == <<19580, 21230, 23430, 23730, 23830>>
hist_total_borrow == [i \in 1..5 |-> hist_current_debt[i] + hist_nc_debt[i]]
hist_other_ncl == <<2350, 2480, 2620, 2700, 2780>>
hist_total_ncl == [i \in 1..5 |-> hist_nc_debt[i] + hist_other_ncl[i]]

hist_total_liab == [i \in 1..5 |-> hist_total_cl[i] + hist_total_ncl[i]]

hist_share_cap == <<13845, 14250, 14680, 15020, 15310>>
hist_reserves == <<358, 380, 380, 400, 412>>
\* A variant with retained earnings as a list of its own.
hist_retained_Listed == <<-3850, -3420, -2760, -2310, -1890>>
\* Retained earnings is the balancing plug.
hist_retained ==
    [i \in 1..5 |-> hist_total_assets[i] - hist_total_liab[i]
                    - hist_share_cap[i] - hist_reserves[i]]
hist_total_eq == [i \in 1..5 |-> hist_share_cap[i] + hist_retained[i] + hist_reserves[i]]

hist_total_le == [i \in 1..5 |-> hist_total_liab[i] + hist_total_eq[i]]

BS_START == 5

bs_items ==
    << Item("ASSETS", "", <<>>, TRUE, FALSE),
       Item("Current Assets", "", <<>>, TRUE, FALSE),
       Item("Cash & cash equivalents", "A$m", hist_cash, FALSE, FALSE),
       Item("Trade & other receivables", "A$m", hist_recv, FALSE, FALSE),
       Item("Other current assets", "A$m", hist_other_ca, FALSE, FALSE),
       Item("Total Current Assets", "A$m", hist_total_ca, FALSE, TRUE),
       Item("", "", <<>>, FALSE, FALSE),
       Item("Non-Current Assets", "", <<>>, TRUE, FALSE),
       Item("Property, plant & equipment", "A$m", hist_ppe, FALSE, FALSE),
       Item("Intangible assets (concessions)", "A$m", hist_intangibles, FALSE, FALSE),
       Item("Investments in joint ventures", "A$m", hist_invest_jv, FALSE, FALSE),
       Item("Other non-current assets", "A$m", hist_other_nca, FALSE, FALSE),
       Item("Total Non-Current Assets", "A$m", hist_total_nca, FALSE, TRUE),
       Item("", "", <<>>, FALSE, FALSE),
       Item("Total Assets", "A$m", hist_total_assets, FALSE, TRUE),
       Item("", "", <<>>, FALSE, FALSE),
       Item("LIABILITIES", "", <<>>, TRUE, FALSE),
       Item("Current Liabilities", "", <<>>, TRUE, FALSE),
       Item("Trade & other payables", "A$m", hist_payables, FALSE, FALSE),
       Item("Current borrowings", "A$m", hist_current_debt, FALSE, FALSE),
       Item("Other current liabilities", "A$m", hist_other_cl, FALSE, FALSE),
       Item("Total Current Liabilities", "A$m", hist_total_cl, FALSE, TRUE),
       Item("", "", <<>>, FALSE, FALSE),
       Item("Non-Current Liabilities", "", <<>>, TRUE, FALSE),
       Item("Non-current borrowings", "A$m", hist_nc_debt, FALSE, FALSE),
       Item("Other non-current liabilities", "A$m", hist_other_ncl, FALSE, FALSE),
       Item("Total Non-Current Liabilities", "A$m", hist_total_ncl, FALSE, TRUE),
       Item("Total Borrowings (current + non-current)", "A$m", hist_total_borrow, FALSE, TRUE),
       Item("", "", <<>>, FALSE, FALSE),
       Item("Total Liabilities", "A$m", hist_total_liab, FALSE, TRUE),
       Item("", "", <<>>, FALSE, FALSE),
       Item("EQUITY", "", <<>>, TRUE, FALSE),
       Item("Share capital", "A$m", hist_share_cap, FALSE, FALSE),
       Item("Retained earnings / (losses)", "A$m", hist_retained, FALSE, FALSE),
       Item("Reserves", "A$m", hist_reserves, FALSE, FALSE),
       Item("Total Equity", "A$m", hist_total_eq, FALSE, TRUE),
       Item("", "", <<>>, FALSE, FALSE),
       Item("Total Liabilities & Equity", "A$m", hist_total_le, FALSE, TRUE),
       Item("", "", <<>>, FALSE, FALSE),
       Item("Balance Sheet Check (Assets - L&E)", "A$m", <<>>, FALSE, TRUE) >>

\* Labels the Balance Sheet section looks up in BS_ROW and in IS_ROW.
BS_LOOKUPS ==
    {"Total Non-Current Assets", "Total Borrowings (current + non-current)",
     "Total Assets", "Total Liabilities & Equity", "Balance Sheet Check (Assets - L&E)",
     "Cash & cash equivalents", "Trade & other receivables", "Other current assets",
     "Total Current Assets", "Property, plant & equipment",
     "Intangible assets (concessions)", "Investments in joint ventures",
     "Other non-current assets", "Trade & other payables", "Current borrowings",
     "Other current liabilities", "Total Current Liabilities", "Non-current borrowings",
     "Other non-current liabilities", "Total Non-Current Liabilities",
     "Total Liabilities", "Share capital", "Retained earnings / (losses)", "Reserves",
     "Total Equity"}
BS_IS_LOOKUPS ==
    {"Net Profit / (Loss) After Tax", "Depreciation & amortisation", "Total Revenue",
     "Total Operating Expenses"}

\* The assertions on the pre-computed rows.
BSRowsAsserted(bs) ==
    /\ bs["Total Non-Current Assets"] = BS_NCA_ROW
    /\ bs["Total Borrowings (current + non-current)"] = BS_DEBT_ROW

\* =<col><Total Assets>-<col><Total Liabilities & Equity>, written to the
\* check row for the historical and for the forecast columns.
BS_Check(bs, col) ==
    F(Sub(R(col, bs["Total Assets"]), R(col, bs["Total Liabilities & Equity"])))

BSHistCheckWrites(bs) ==
    [i \in 1..(HIST_END - HIST_START + 1) |->
        W(bs["Balance Sheet Check (Assets - L&E)"], HIST_START + i - 1,
          BS_Check(bs, HIST_START + i - 1))]

\* The forecast formulas of the Balance Sheet in column col; bs is BS_ROW
\* and is is IS_ROW.
BS_Cash(bs, is, col) == F(X(SheetCF, col, CF_CLOSE_CASH_ROW))
\* A variant that collects on toll revenue only.
BS_Receivables_TollOnly(bs, is, col) ==
    F(Mul(Div(X(SheetIS, col, is["Toll revenue"]), K(365)), A(col, AROW_REC_DAYS)))
\* ='Income Statement'!<col><trev>/365*Assumptions!<col><AROW_REC_DAYS>
BS_Receivables(bs, is, col) ==
    F(Mul(Div(X(SheetIS, col, is["Total Revenue"]), K(365)), A(col, AROW_REC_DAYS)))
\* =<prev><row>*(1+Assumptions!<col><growth row>)
BS_Grow(row, grow_row, col) ==
    F(Mul(R(col - 1, row), Add(K(1), A(col, grow_row))))
BS_OtherCA(bs, is, col) == BS_Grow(bs["Other current assets"], AROW_OCA_GR, col)
BS_TotalCA(bs, is, col) ==
    F(Add(Add(R(col, bs["Cash & cash equivalents"]),
              R(col, bs["Trade & other receivables"])),
          R(col, bs["Other current assets"])))
\* =<prev><ppe>+Assumptions!<col><CAPEX>+'Income Statement'!<col><da>*Assumptions!<col><DA_PPE>
BS_PPE(bs, is, col) ==
    F(Add(Add(R(col - 1, bs["Property, plant & equipment"]), A(col, AROW_CAPEX)),
          Mul(X(SheetIS, col, is["Depreciation & amortisation"]), A(col, AROW_DA_PPE))))
\* =<prev><intang>+'Income Statement'!<col><da>*Assumptions!<col><DA_INTANG>
BS_Intangibles(bs, is, col) ==
    F(Add(R(col - 1, bs["Intangible assets (concessions)"]),
          Mul(X(SheetIS, col, is["Depreciation & amortisation"]), A(col, AROW_DA_INTANG))))
BS_JV(bs, is, col) == BS_Grow(bs["Investments in joint ventures"], AROW_JV_GR, col)
BS_OtherNCA(bs, is, col) == BS_Grow(bs["Other non-current assets"], AROW_ONCA_GR, col)
BS_TotalNCA(bs, is, col) ==
    F(Add(Add(Add(R(col, bs["Property, plant & equipment"]),
                  R(col, bs["Intangible assets (concessions)"])),
              R(col, bs["Investments in joint ventures"])),
          R(col, bs["Other non-current assets"])))
BS_TotalAssets(bs, is, col) ==
    F(Add(R(col, bs["Total Current Assets"]), R(col, bs["Total Non-Current Assets"])))
\* =-'Income Statement'!<col><topex>/365*Assumptions!<col><AROW_PAY_DAYS>
BS_Payables(bs, is, col) ==
    F(Mul(Div(Neg(X(SheetIS, col, is["Total Operating Expenses"])), K(365)),
          A(col, AROW_PAY_DAYS)))
\* =(<prev><tb>+Assumptions!<col><NET_DEBT>)*Assumptions!<col><CURR_BORROW_PCT>
BS_CurrentBorrowings(bs, is, col) ==
    F(Mul(Add(R(col - 1, bs["Total Borrowings (current + non-current)"]),
              A(col, AROW_NET_DEBT)),
          A(col, AROW_CURR_BORROW_PCT)))
BS_OtherCL(bs, is, col) == BS_Grow(bs["Other current liabilities"], AROW_OCL_GR, col)
BS_TotalCL(bs, is, col) ==
    F(Add(Add(R(col, bs["Trade & other payables"]), R(col, bs["Current borrowings"])),
          R(col, bs["Other current liabilities"])))
\* A variant that takes 95% of the debt as non-current.
BS_NonCurrentBorrowings_OwnShare(bs, is, col) ==
    F(Mul(Add(R(col - 1, bs["Total Borrowings (current + non-current)"]),
              A(col, AROW_NET_DEBT)),
          Div(K(95), K(100))))
\* =<prev><tb>+Assumptions!<col><NET_DEBT>-<col><cd>
BS_NonCurrentBorrowings(bs, is, col) ==
    F(Sub(Add(R(col - 1, bs["Total Borrowings (current + non-current)"]),
              A(col, AROW_NET_DEBT)),
          R(col, bs["Current borrowings"])))
BS_OtherNCL(bs, is, col) == BS_Grow(bs["Other non-current liabilities"], AROW_ONCL_GR, col)
BS_TotalNCL(bs, is, col) ==
    F(Add(R(col, bs["Non-current borrowings"]), R(col, bs["Other non-current liabilities"])))
BS_TotalBorrowings(bs, is, col) ==
    F(Add(R(col, bs["Current borrowings"]), R(col, bs["Non-current borrowings"])))
BS_TotalLiabilities(bs, is, col) ==
    F(Add(R(col, bs["Total Current Liabilities"]),
          R(col, bs["Total Non-Current Liabilities"])))
\* =<prev><sc>*(1+Assumptions!<col><AROW_DRP_RATE>)
BS_ShareCapital(bs, is, col) == BS_Grow(bs["Share capital"], AROW_DRP_RATE, col)
\* =<prev><re>+'Income Statement'!<col><npat>-Assumptions!<col><DPS>*Assumptions!<col><SHARES>/100
BS_RetainedEarnings(bs, is, col) ==
    F(Sub(Add(R(col - 1, bs["Retained earnings / (losses)"]),
              X(SheetIS, col, is["Net Profit / (Loss) After Tax"])),
          Div(Mul(A(col, AROW_DPS), A(col, AROW_SHARES)), K(100))))
BS_Reserves(bs, is, col) == F(R(col - 1, bs["Reserves"]))
BS_TotalEquity(bs, is, col) ==
    F(Add(Add(R(col, bs["Share capital"]), R(col, bs["Retained earnings / (losses)"])),
          R(col, bs["Reserves"])))
BS_TotalLE(bs, is, col) ==
    F(Add(R(col, bs["Total Liabilities"]), R(col, bs["Total Equity"])))

\* One pass of the forecast loop.
BSForecastWrites(bs, is, col) ==
    << W(bs["Cash & cash equivalents"], col, BS_Cash(bs, is, col)),
       W(bs["Trade & other receivables"], col, BS_Receivables(bs, is, col)),
       W(bs["Other current assets"], col, BS_OtherCA(bs, is, col)),
       W(bs["Total Current Assets"], col, BS_TotalCA(bs, is, col)),
       W(bs["Property, plant & equipment"], col, BS_PPE(bs, is, col)),
       W(bs["Intangible assets (concessions)"], col, BS_Intangibles(bs, is, col)),
       W(bs["Investments in joint ventures"], col, BS_JV(bs, is, col)),
       W(bs["Other non-current assets"], col, BS_OtherNCA(bs, is, col)),
       W(bs["Total Non-Current Assets"], col, BS_TotalNCA(bs, is, col)),
       W(bs["Total Assets"], col, BS_TotalAssets(bs, is, col)),
       W(bs["Trade & other payables"], col, BS_Payables(bs, is, col)),
       W(bs["Current borrowings"], col, BS_CurrentBorrowings(bs, is, col)),
       W(bs["Other current liabilities"], col, BS_OtherCL(bs, is, col)),
       W(bs["Total Current Liabilities"], col, BS_TotalCL(bs, is, col)),
       W(bs["Non-current borrowings"], col, BS_NonCurrentBorrowings(bs, is, col)),
       W(bs["Other non-current liabilities"], col, BS_OtherNCL(bs, is, col)),
       W(bs["Total Non-Current Liabilities"], col, BS_TotalNCL(bs, is, col)),
       W(bs["Total Borrowings (current + non-current)"], col, BS_TotalBorrowings(bs, is, col)),
       W(bs["Total Liabilities"], col, BS_TotalLiabilities(bs, is, col)),
       W(bs["Share capital"], col, BS_ShareCapital(bs, is, col)),
       W(bs["Retained earnings / (losses)"], col, BS_RetainedEarnings(bs, is, col)),
       W(bs["Reserves"], col, BS_Reserves(bs, is, col)),
       W(bs["Total Equity"], col, BS_TotalEquity(bs, is, col)),
       W(bs["Total Liabilities & Equity"], col, BS_TotalLE(bs, is, col)),
       W(bs["Balance Sheet Check (Assets - L&E)"], col, BS_Check(bs, col)) >>

BSHeaderWrites ==
    << W(1, LABEL_COL, Str(TITLE_BS)), W(2, LABEL_COL, Str(SUBTITLE_BS)),
       W(4, LABEL_COL, Str("Balance Sheet")) >>
    \o FYHeaderWrites(4)

\* The writes made before the row assertions, and those made after them.
BSWalkWrites(items) == BSHeaderWrites \o WalkWrites(items, BS_START)
BSFormulaWrites(bs, is) ==
    BSHistCheckWrites(bs)
    \o Flatten([i \in 1..5 |-> BSForecastWrites(bs, is, FC_START + i - 1)])

(***************************************************************************)
(* 4. Cash Flow Statement.                                                 *)
(***************************************************************************)
TITLE_CF == "Transurban Group - Cash Flow Statement"

hist_cfo_npat == hist_npat
hist_cfo_da == [i \in 1..5 |-> -hist_da[i]]
hist_wc_change == <<-45, 30, -60, 25, -15>>
hist_other_ops == <<120, 135, 150, 160, 170>>
hist_net_cfo ==
    [i \in 1..5 |-> hist_cfo_npat[i] + hist_cfo_da[i] + hist_wc_change[i] + hist_other_ops[i]]

hist_capex == <<-628, -1092, -1805, -1420, -1200>>
hist_other_inv == <<-150, -80, -120, -100, -90>>
hist_net_cfi == [i \in 1..5 |-> hist_capex[i] + hist_other_inv[i]]

hist_debt_proc == <<1200, 2050, 2800, 600, 300>>
hist_div_paid == <<-792, -1032, -1218, -1276, -1313>>
hist_equity_iss == <<405, 450, 430, 340, 290>>
hist_net_cff == [i \in 1..5 |-> hist_debt_proc[i] + hist_div_paid[i] + hist_equity_iss[i]]

hist_net_change == [i \in 1..5 |-> hist_net_cfo[i] + hist_net_cfi[i] + hist_net_cff[i]]
\* A variant that opens each year with the closing cash of the same year.
hist_open_cash_SameYear == <<2285>> \o [k \in 1..4 |-> hist_cash[k + 1]]
\* FY21 opening cash, then the closing cash of the year before.
hist_open_cash == <<2285>> \o [k \in 1..4 |-> hist_cash[k]]
hist_fx_other == [i \in 1..5 |-> hist_cash[i] - hist_open_cash[i] - hist_net_change[i]]

CF_START == 5

cf_items ==
    << Item("OPERATING ACTIVITIES", "", <<>>, TRUE, FALSE),
       Item("Net profit / (loss) after tax", "A$m", hist_cfo_npat, FALSE, FALSE),
       Item("Add back: D&A", "A$m", hist_cfo_da, FALSE, FALSE),
       Item("Changes in working capital", "A$m", hist_wc_change, FALSE, FALSE),
       Item("Other operating adjustments", "A$m", hist_other_ops, FALSE, FALSE),
       Item("Net Cash from Operating Activities", "A$m", hist_net_cfo, FALSE, TRUE),
       Item("", "", <<>>, FALSE, FALSE),
       Item("INVESTING ACTIVITIES", "", <<>>, TRUE, FALSE),
       Item("Capital expenditure", "A$m", hist_capex, FALSE, FALSE),
       Item("Other investing activities", "A$m", hist_other_inv, FALSE, FALSE),
       Item("Net Cash from Investing Activities", "A$m", hist_net_cfi, FALSE, TRUE),
       Item("", "", <<>>, FALSE, FALSE),
       Item("FINANCING ACTIVITIES", "", <<>>, TRUE, FALSE),
       Item("Proceeds from / (repayment of) borrowings", "A$m", hist_debt_proc, FALSE, FALSE),
       Item("Dividends / distributions paid", "A$m", hist_div_paid, FALSE, FALSE),
       Item("Equity issuance (DRP & placements)", "A$m", hist_equity_iss, FALSE, FALSE),
       Item("Net Cash from Financing Activities", "A$m", hist_net_cff, FALSE, TRUE),
       Item("", "", <<>>, FALSE, FALSE),
       Item("Net increase / (decrease) in cash", "A$m", hist_net_change, FALSE, TRUE),
       Item("FX & other adjustments", "A$m", hist_fx_other, FALSE, FALSE),
       Item("Opening cash balance", "A$m", hist_open_cash, FALSE, FALSE),
       Item("Closing Cash Balance", "A$m", hist_cash, FALSE, TRUE) >>

\* Labels the Cash Flow section looks up in CF_ROW.
CF_LOOKUPS ==
    {"Closing Cash Balance", "Net profit / (loss) after tax", "Add back: D&A",
     "Changes in working capital", "Other operating adjustments",
     "Net Cash from Operating Activities", "Capital expenditure",
     "Other investing activities", "Net Cash from Investing Activities",
     "Proceeds from / (repayment of) borrowings", "Dividends / distributions paid",
     "Equity issuance (DRP & placements)", "Net Cash from Financing Activities",
     "Net increase / (decrease) in cash", "FX & other adjustments",
     "Opening cash balance"}

\* A variant without the assertion.
CFRowAsserted_Skipped(cf) == TRUE
CFRowAsserted(cf) == cf["Closing Cash Balance"] = CF_CLOSE_CASH_ROW

\* The forecast formulas of the Cash Flow Statement in column col; cf is
\* CF_ROW, bs is BS_ROW and is is IS_ROW.
CF_NPAT(cf, bs, is, col) == F(X(SheetIS, col, is["Net Profit / (Loss) After Tax"]))
CF_DA(cf, bs, is, col) == F(Neg(X(SheetIS, col, is["Depreciation & amortisation"])))
\* =-('Balance Sheet'!<col><recv>-'Balance Sheet'!<prev><recv>)
\*  +('Balance Sheet'!<col><pay>-'Balance Sheet'!<prev><pay>)
CF_WorkingCapital(cf, bs, is, col) ==
    F(Add(Neg(Sub(X(SheetBS, col, bs["Trade & other receivables"]),
                  X(SheetBS, col - 1, bs["Trade & other receivables"]))),
          Sub(X(SheetBS, col, bs["Trade & other payables"]),
              X(SheetBS, col - 1, bs["Trade & other payables"]))))
CF_OtherOps(cf, bs, is, col) ==
    F(Mul(R(col - 1, cf["Other operating adjustments"]),
          Add(K(1), A(col, AROW_OTHER_OPS_GR))))
CF_NetOperating(cf, bs, is, col) ==
    F(Add(Add(Add(R(col, cf["Net profit / (loss) after tax"]), R(col, cf["Add back: D&A"])),
              R(col, cf["Changes in working capital"])),
          R(col, cf["Other operating adjustments"])))
\* A variant that writes the capital expenditure of FY25 as a number.
CF_Capex_Static(cf, bs, is, col) == Whole(0 - 1200)
CF_Capex(cf, bs, is, col) == F(Neg(A(col, AROW_CAPEX)))
\* A variant that carries other investing activities over from two years back.
CF_OtherInvesting_TwoBack(cf, bs, is, col) ==
    F(R(col - 2, cf["Other investing activities"]))
CF_OtherInvesting(cf, bs, is, col) == F(R(col - 1, cf["Other investing activities"]))
CF_NetInvesting(cf, bs, is, col) ==
    F(Add(R(col, cf["Capital expenditure"]), R(col, cf["Other investing activities"])))
CF_DebtProceeds(cf, bs, is, col) == F(A(col, AROW_NET_DEBT))
\* A variant that takes the dividend per security in dollars.
CF_Dividends_InDollars(cf, bs, is, col) ==
    F(Mul(Neg(A(col, AROW_DPS)), A(col, AROW_SHARES)))
\* =-Assumptions!<col><DPS>*Assumptions!<col><SHARES>/100
CF_Dividends(cf, bs, is, col) ==
    F(Div(Mul(Neg(A(col, AROW_DPS)), A(col, AROW_SHARES)), K(100)))
\* ='Balance Sheet'!<prev><sc>*Assumptions!<col><AROW_EQUITY_ISS>
CF_EquityIssuance(cf, bs, is, col) ==
    F(Mul(X(SheetBS, col - 1, bs["Share capital"]), A(col, AROW_EQUITY_ISS)))
CF_NetFinancing(cf, bs, is, col) ==
    F(Add(Add(R(col, cf["Proceeds from / (repayment of) borrowings"]),
              R(col, cf["Dividends / distributions paid"])),
          R(col, cf["Equity issuance (DRP & placements)"])))
CF_NetChange(cf, bs, is, col) ==
    F(Add(Add(R(col, cf["Net Cash from Operating Activities"]),
              R(col, cf["Net Cash from Investing Activities"])),
          R(col, cf["Net Cash from Financing Activities"])))
CF_FX(cf, bs, is, col) == Whole(0)
\* A variant that opens with the Balance Sheet cash of the same period.
CF_OpeningCash_SamePeriod(cf, bs, is, col) ==
    F(X(SheetBS, col, bs["Cash & cash equivalents"]))
\* ='Balance Sheet'!<prev><cash>
CF_OpeningCash(cf, bs, is, col) == F(X(SheetBS, col - 1, bs["Cash & cash equivalents"]))
\* A variant that takes the closing cash from the Balance Sheet.
CF_ClosingCash_FromBalanceSheet(cf, bs, is, col) ==
    F(X(SheetBS, col, bs["Cash & cash equivalents"]))
CF_ClosingCash(cf, bs, is, col) ==
    F(Add(Add(R(col, cf["Opening cash balance"]),
              R(col, cf["Net increase / (decrease) in cash"])),
          R(col, cf["FX & other adjustments"])))

CFForecastWrites(cf, bs, is, col) ==
    << W(cf["Net profit / (loss) after tax"], col, CF_NPAT(cf, bs, is, col)),
       W(cf["Add back: D&A"], col, CF_DA(cf, bs, is, col)),
       W(cf["Changes in working capital"], col, CF_WorkingCapital(cf, bs, is, col)),
       W(cf["Other operating adjustments"], col, CF_OtherOps(cf, bs, is, col)),
       W(cf["Net Cash from Operating Activities"], col, CF_NetOperating(cf, bs, is, col)),
       W(cf["Capital expenditure"], col, CF_Capex(cf, bs, is, col)),
       W(cf["Other investing activities"], col, CF_OtherInvesting(cf, bs, is, col)),
       W(cf["Net Cash from Investing Activities"], col, CF_NetInvesting(cf, bs, is, col)),
       W(cf["Proceeds from / (repayment of) borrowings"], col, CF_DebtProceeds(cf, bs, is, col)),
       W(cf["Dividends / distributions paid"], col, CF_Dividends(cf, bs, is, col)),
       W(cf["Equity issuance (DRP & placements)"], col, CF_EquityIssuance(cf, bs, is, col)),
       W(cf["Net Cash from Financing Activities"], col, CF_NetFinancing(cf, bs, is, col)),
       W(cf["Net increase / (decrease) in cash"], col, CF_NetChange(cf, bs, is, col)),
       W(cf["FX & other adjustments"], col, CF_FX(cf, bs, is, col)),
       W(cf["Opening cash balance"], col, CF_OpeningCash(cf, bs, is, col)),
       W(cf["Closing Cash Balance"], col, CF_ClosingCash(cf, bs, is, col)) >>

CFHeaderWrites ==
    << W(1, LABEL_COL, Str(TITLE_CF)), W(2, LABEL_COL, Str(SUBTITLE_FY)),
       W(4, LABEL_COL, Str("Cash Flow Statement")) >>
    \o FYHeaderWrites(4)

CFWalkWrites(items) == CFHeaderWrites \o WalkWrites(items, CF_START)
CFFormulaWrites(cf, bs, is) ==
    Flatten([i \in 1..5 |-> CFForecastWrites(cf, bs, is, FC_START + i - 1)])

(***************************************************************************)
(* 5. Notes to the financial statements.                                   *)
(***************************************************************************)
TITLE_N == "Transurban Group - Notes to the Financial Statements"

hist_construction_rev == <<180, 320, 540, 420, 350>>

hist_melb_rev == <<820, 920, 1080, 1150, 1220>>
hist_melb_ebitda == <<620, 710, 840, 900, 960>>
hist_syd_rev == <<1050, 1220, 1520, 1680, 1800>>
hist_syd_ebitda == <<750, 890, 1120, 1250, 1350>>
hist_bris_rev == <<430, 480, 560, 600, 640>>
hist_bris_ebitda == <<310, 350, 410, 440, 470>>
hist_na_rev == <<478, 521, 627, 652, 690>>
hist_na_ebitda == <<120, 150, 205, 230, 260>>

hist_intang_opening == <<22100, 22630, 23310, 24460, 25340>>
hist_intang_additions == <<530, 680, 1150, 880, 720>>

hist_maturity_1_2yr == <<1100, 1250, 1400, 1150, 1050>>
hist_maturity_2_5yr == <<5200, 5650, 6300, 6400, 6500>>

hist_cap_borrow_costs == <<45, 78, 125, 95, 80>>

hist_non_ded_amort == <<215, 210, 205, 195, 190>>
hist_tax_concessions == <<-50, -48, -45, -42, -40>>
hist_other_perm_diff == <<25, 20, 15, 10, 8>>

hist_cap_commit == <<2800, 3200, 2500, 1800, 1500>>
hist_op_lease_commit == <<85, 90, 95, 100, 105>>
hist_contingent_liab == <<150, 150, 160, 160, 170>>

\* The data of a note item: a list of historical values, a tag naming the
\* formula written later, or nothing.
DList(v) == [kind |-> "list", v |-> v]
DTag(s) == [kind |-> "tag", v |-> s]
DNone == [kind |-> "none", v |-> ""]

NoteItem(label, unit, data, is_section, is_total, is_check) ==
    [label |-> label, unit |-> unit, data |-> data, is_section |-> is_section,
     is_total |-> is_total, is_check |-> is_check]

NOTES_START == 5

notes_items ==
    << NoteItem("REVENUE BREAKDOWN", "", DNone, TRUE, FALSE, FALSE),
       NoteItem("Toll revenue", "A$m", DTag("link_is_toll"), FALSE, FALSE, FALSE),
       NoteItem("Construction revenue", "A$m", DList(hist_construction_rev), FALSE, FALSE, FALSE),
       NoteItem("Other revenue", "A$m", DTag("link_is_other"), FALSE, FALSE, FALSE),
       NoteItem("Total Revenue", "A$m", DTag("link_is_total_rev"), FALSE, TRUE, FALSE),
       NoteItem("", "", DNone, FALSE, FALSE, FALSE),
       NoteItem("SEGMENT REPORTING", "", DNone, TRUE, FALSE, FALSE),
       NoteItem("Melbourne (CityLink)", "", DNone, FALSE, FALSE, FALSE),
       NoteItem("  Revenue", "A$m", DList(hist_melb_rev), FALSE, FALSE, FALSE),
       NoteItem("  EBITDA", "A$m", DList(hist_melb_ebitda), FALSE, FALSE, FALSE),
       NoteItem("Sydney", "", DNone, FALSE, FALSE, FALSE),
       NoteItem("  Revenue", "A$m", DList(hist_syd_rev), FALSE, FALSE, FALSE),
       NoteItem("  EBITDA", "A$m", DList(hist_syd_ebitda), FALSE, FALSE, FALSE),
       NoteItem("Brisbane", "", DNone, FALSE, FALSE, FALSE),
       NoteItem("  Revenue", "A$m", DList(hist_bris_rev), FALSE, FALSE, FALSE),
       NoteItem("  EBITDA", "A$m", DList(hist_bris_ebitda), FALSE, FALSE, FALSE),
       NoteItem("North America", "", DNone, FALSE, FALSE, FALSE),
       NoteItem("  Revenue", "A$m", DList(hist_na_rev), FALSE, FALSE, FALSE),
       NoteItem("  EBITDA", "A$m", DList(hist_na_ebitda), FALSE, FALSE, FALSE),
       NoteItem("Total segment revenue", "A$m", DTag("sum_segment_rev"), FALSE, TRUE, FALSE),
       NoteItem("Total segment EBITDA", "A$m", DTag("sum_segment_ebitda"), FALSE, TRUE, FALSE),
       NoteItem("Reconciliation to IS EBITDA", "A$m", DTag("link_is_ebitda"), FALSE, TRUE, FALSE),
       NoteItem("", "", DNone, FALSE, FALSE, FALSE),
       NoteItem("INTANGIBLE ASSETS (CONCESSION RIGHTS)", "", DNone, TRUE, FALSE, FALSE),
       NoteItem("Opening balance", "A$m", DList(hist_intang_opening), FALSE, FALSE, FALSE),
       NoteItem("Additions (capitalised construction)", "A$m", DList(hist_intang_additions),
                FALSE, FALSE, FALSE),
       NoteItem("Amortisation charge", "A$m", DTag("link_is_da_60pct"), FALSE, FALSE, FALSE),
       NoteItem("Closing balance", "A$m", DTag("calc_intang_close"), FALSE, TRUE, FALSE),
       NoteItem("Cross-check to BS", "A$m", DTag("link_bs_intang"), FALSE, TRUE, TRUE),
       NoteItem("", "", DNone, FALSE, FALSE, FALSE),
       NoteItem("BORROWINGS", "", DNone, TRUE, FALSE, FALSE),
       NoteItem("Current borrowings", "A$m", DTag("link_bs_current_debt"), FALSE, FALSE, FALSE),
       NoteItem("Non-current borrowings", "A$m", DTag("link_bs_nc_debt"), FALSE, FALSE, FALSE),
       NoteItem("Total borrowings", "A$m", DTag("link_bs_total_debt"), FALSE, TRUE, FALSE),
       NoteItem("", "", DNone, FALSE, FALSE, FALSE),
       NoteItem("Maturity Profile", "", DNone, FALSE, FALSE, FALSE),
       NoteItem("  Within 1 year", "A$m", DTag("link_current_debt"), FALSE, FALSE, FALSE),
       NoteItem("  1-2 years", "A$m", DList(hist_maturity_1_2yr), FALSE, FALSE, FALSE),
       NoteItem("  2-5 years", "A$m", DList(hist_maturity_2_5yr), FALSE, FALSE, FALSE),
       NoteItem("  Over 5 years", "A$m", DTag("calc_over_5yr"), FALSE, FALSE, FALSE),
       NoteItem("  Total (maturity check)", "A$m", DTag("sum_maturity"), FALSE, TRUE, TRUE),
       NoteItem("", "", DNone, FALSE, FALSE, FALSE),
       NoteItem("Borrowing Costs", "", DNone, FALSE, FALSE, FALSE),
       NoteItem("  Interest expense", "A$m", DTag("link_is_interest"), FALSE, FALSE, FALSE),
       NoteItem("  Capitalised borrowing costs", "A$m", DList(hist_cap_borrow_costs),
                FALSE, FALSE, FALSE),
       NoteItem("  Effective interest rate", "%", DTag("link_assum_cod"), FALSE, FALSE, FALSE),
       NoteItem("", "", DNone, FALSE, FALSE, FALSE),
       NoteItem("INCOME TAX", "", DNone, TRUE, FALSE, FALSE),
       NoteItem("Profit before tax", "A$m", DTag("link_is_pbt"), FALSE, FALSE, FALSE),
       NoteItem("Tax at statutory rate (30%)", "A$m", DTag("calc_tax_30pct"), FALSE, FALSE, FALSE),
       NoteItem("Tax effect adjustments:", "", DNone, FALSE, FALSE, FALSE),
       NoteItem("  Non-deductible amortisation", "A$m", DList(hist_non_ded_amort),
                FALSE, FALSE, FALSE),
       NoteItem("  Tax concessions & offsets", "A$m", DList(hist_tax_concessions),
                FALSE, FALSE, FALSE),
       NoteItem("  Other permanent differences", "A$m", DList(hist_other_perm_diff),
                FALSE, FALSE, FALSE),
       NoteItem("Total tax adjustments", "A$m", DTag("sum_tax_adj"), FALSE, TRUE, FALSE),
       NoteItem("Income tax expense", "A$m", DTag("link_is_tax"), FALSE, TRUE, FALSE),
       NoteItem("Effective tax rate", "%", DTag("calc_etr"), FALSE, FALSE, FALSE),
       NoteItem("ETR per Assumptions", "%", DTag("link_assum_tax"), FALSE, FALSE, TRUE),
       NoteItem("", "", DNone, FALSE, FALSE, FALSE),
       NoteItem("DIVIDENDS / DISTRIBUTIONS", "", DNone, TRUE, FALSE, FALSE),
       NoteItem("DPS (cents per security)", "Ac", DTag("link_assum_dps"), FALSE, FALSE, FALSE),
       NoteItem("Securities on issue (m)", "m", DTag("link_assum_shares"), FALSE, FALSE, FALSE),
       NoteItem("Total distributions paid", "A$m", DTag("link_cf_div"), FALSE, FALSE, FALSE),
       NoteItem("Payout ratio (% of NPAT)", "%", DTag("calc_payout"), FALSE, FALSE, FALSE),
       NoteItem("Franking credits", "A$m", DList(<<0, 0, 0, 0, 0>>), FALSE, FALSE, FALSE),
       NoteItem("", "", DNone, FALSE, FALSE, FALSE),
       NoteItem("COMMITMENTS & CONTINGENCIES", "", DNone, TRUE, FALSE, FALSE),
       NoteItem("Capital commitments", "A$m", DList(hist_cap_commit), FALSE, FALSE, FALSE),
       NoteItem("Operating lease commitments", "A$m", DList(hist_op_lease_commit),
                FALSE, FALSE, FALSE),
       NoteItem("Contingent liabilities", "A$m", DList(hist_contingent_liab),
                FALSE, FALSE, FALSE) >>

\* Labels the Notes section looks up in NOTES_ROW.
NOTES_LOOKUPS ==
    {"Toll revenue", "Construction revenue", "Other revenue", "Total Revenue",
     "Melbourne (CityLink)", "Sydney", "Brisbane", "North America",
     "Total segment revenue", "Total segment EBITDA", "Reconciliation to IS EBITDA",
     "Opening balance", "Additions (capitalised construction)", "Amortisation charge",
     "Closing balance", "Cross-check to BS", "Current borrowings",
     "Non-current borrowings", "Total borrowings", "  Within 1 year", "  1-2 years",
     "  2-5 years", "  Over 5 years", "  Total (maturity check)", "  Interest expense",
     "  Capitalised borrowing costs", "  Effective interest rate", "Profit before tax",
     "Tax at statutory rate (30%)", "  Non-deductible amortisation",
     "  Tax concessions & offsets", "  Other permanent differences",
     "Total tax adjustments", "Income tax expense", "Effective tax rate",
     "ETR per Assumptions", "DPS (cents per security)", "Securities on issue (m)",
     "Total distributions paid", "Payout ratio (% of NPAT)", "Franking credits",
     "Capital commitments", "Operating lease commitments", "Contingent liabilities"}

\* The walk over notes_items: only a list is written as values.
NoteItemWrites(it, r) ==
    << W(r, LABEL_COL, Str(it.label)) >>
    \o (IF it.unit # "" THEN << W(r, UNIT_COL, Str(it.unit)) >> ELSE <<>>)
    \o (IF it.data.kind = "list"
        THEN [i \in 1..Len(it.data.v) |-> W(r, HIST_START + i - 1, Whole(it.data.v[i]))]
        ELSE <<>>)

NotesWalkWrites(items) ==
    << W(1, LABEL_COL, Str(TITLE_N)), W(2, LABEL_COL, Str(SUBTITLE_FY)),
       W(4, LABEL_COL, Str("Notes")), W(4, UNIT_COL, Str("")) >>
    \o FYHeaderWrites(4)
    \o Flatten([i \in 1..Len(items) |->
                    NoteItemWrites(items[i], NOTES_START + i - 1)])

\* Grow(row, grow_row, col): =<prev><row>*(1+Assumptions!<col><grow_row>)
\* Note 1: revenue breakdown, FY21-FY30.
N_TollRevenue(n, is, col) == F(X(SheetIS, col, is["Toll revenue"]))
N_Construction(n, is, col) == BS_Grow(n["Construction revenue"], AROW_CONSTR_GR, col)
N_OtherRevenue(n, is, col) == F(X(SheetIS, col, is["Other revenue"]))
N_TotalRevenue(n, is, col) == F(X(SheetIS, col, is["Total Revenue"]))

Note1Writes(n, is, col) ==
    << W(n["Toll revenue"], col, N_TollRevenue(n, is, col)) >>
    \o (IF col >= FC_START
        THEN << W(n["Construction revenue"], col, N_Construction(n, is, col)) >>
        ELSE <<>>)
    \o << W(n["Other revenue"], col, N_OtherRevenue(n, is, col)),
          W(n["Total Revenue"], col, N_TotalRevenue(n, is, col)) >>

\* Note 2: segment reporting, historical columns only.  The segment rows
\* are found one and two rows below the segment's label.
\* A variant that finds the Melbourne revenue row by its label.
row_melb_rev_ByLabel(n) == n["  Revenue"]
row_melb_rev(n) == n["Melbourne (CityLink)"] + 1
row_syd_rev(n) == n["Sydney"] + 1
row_bris_rev(n) == n["Brisbane"] + 1
row_na_rev(n) == n["North America"] + 1

N_SegmentRevenue(n, col) ==
    F(Add(Add(Add(R(col, row_melb_rev(n)), R(col, row_syd_rev(n))),
              R(col, row_bris_rev(n))),
          R(col, row_na_rev(n))))
N_SegmentEBITDA(n, col) ==
    F(Add(Add(Add(R(col, row_melb_rev(n) + 1), R(col, row_syd_rev(n) + 1)),
              R(col, row_bris_rev(n) + 1)),
          R(col, row_na_rev(n) + 1)))
N_ReconEBITDA(n, is, col) == F(X(SheetIS, col, is["EBITDA"]))

Note2Writes(n, is, col) ==
    << W(n["Total segment revenue"], col, N_SegmentRevenue(n, col)),
       W(n["Total segment EBITDA"], col, N_SegmentEBITDA(n, col)),
       W(n["Reconciliation to IS EBITDA"], col, N_ReconEBITDA(n, is, col)) >>

\* Note 3: intangible assets, FY21-FY30; bs is BS_ROW.
\* Opening balance after FY21: =<prev><Closing balance>
N_IntangOpening(n, col) == F(R(col - 1, n["Closing balance"]))
\* Additions in the forecast: =<col><Construction revenue>
N_IntangAdditions(n, col) == F(R(col, n["Construction revenue"]))
\* ='Income Statement'!<col><da>*Assumptions!<col><AROW_DA_INTANG>
N_IntangAmortisation(n, is, col) ==
    F(Mul(X(SheetIS, col, is["Depreciation & amortisation"]), A(col, AROW_DA_INTANG)))
\* =<col><open>+<col><add>+<col><amort>
N_IntangClosing(n, col) ==
    F(Add(Add(R(col, n["Opening balance"]),
              R(col, n["Additions (capitalised construction)"])),
          R(col, n["Amortisation charge"])))
N_IntangCrossCheck(n, bs, col) ==
    F(X(SheetBS, col, bs["Intangible assets (concessions)"]))

Note3Writes(n, bs, is, col) ==
    (IF col > HIST_START
     THEN << W(n["Opening balance"], col, N_IntangOpening(n, col)) >>
     ELSE <<>>)
    \o (IF col >= FC_START
        THEN << W(n["Additions (capitalised construction)"], col,
                  N_IntangAdditions(n, col)) >>
        ELSE <<>>)
    \o << W(n["Amortisation charge"], col, N_IntangAmortisation(n, is, col)),
          W(n["Closing balance"], col, N_IntangClosing(n, col)),
          W(n["Cross-check to BS"], col, N_IntangCrossCheck(n, bs, col)) >>

\* Note 4: borrowings, FY21-FY30.
N_CurrentBorrowings(n, bs, col) == F(X(SheetBS, col, bs["Current borrowings"]))
N_NonCurrentBorrowings(n, bs, col) == F(X(SheetBS, col, bs["Non-current borrowings"]))
N_TotalBorrowings(n, bs, col) ==
    F(X(SheetBS, col, bs["Total Borrowings (current + non-current)"]))
N_Within1(n, col) == F(R(col, n["Current borrowings"]))
\* =<col><Total borrowings>*Assumptions!<col><share row>
N_MaturityShare(n, share_row, col) ==
    F(Mul(R(col, n["Total borrowings"]), A(col, share_row)))
\* A variant whose residual leaves out the bucket within one year.
N_Over5_NoCurrent(n, col) ==
    F(Sub(Sub(R(col, n["Total borrowings"]), R(col, n["  1-2 years"])),
          R(col, n["  2-5 years"])))
\* =<col><total>-<col><within 1>-<col><1-2>-<col><2-5>
N_Over5(n, col) ==
    F(Sub(Sub(Sub(R(col, n["Total borrowings"]), R(col, n["  Within 1 year"])),
              R(col, n["  1-2 years"])),
          R(col, n["  2-5 years"])))
\* =<col><within 1>+<col><1-2>+<col><2-5>+<col><over 5>
N_MaturityTotal(n, col) ==
    F(Add(Add(Add(R(col, n["  Within 1 year"]), R(col, n["  1-2 years"])),
              R(col, n["  2-5 years"])),
          R(col, n["  Over 5 years"])))
N_InterestExpense(n, is, col) == F(Neg(X(SheetIS, col, is["Net finance costs"])))
\* =Assumptions!<col><CAPEX>*Assumptions!<col><COD>*Assumptions!<col><CAP_BORR>
N_CapitalisedCosts(n, col) ==
    F(Mul(Mul(A(col, AROW_CAPEX), A(col, AROW_COD)), A(col, AROW_CAP_BORR)))
\* A variant that reads the raw input row of the cost of debt.
N_EffectiveRate_RawInput(n, col) == F(A(col, AROW_COD - 1))
\* =Assumptions!<col><AROW_COD>
N_EffectiveRate(n, col) == F(A(col, AROW_COD))

Note4Writes(n, bs, is, col) ==
    << W(n["Current borrowings"], col, N_CurrentBorrowings(n, bs, col)),
       W(n["Non-current borrowings"], col, N_NonCurrentBorrowings(n, bs, col)),
       W(n["Total borrowings"], col, N_TotalBorrowings(n, bs, col)),
       W(n["  Within 1 year"], col, N_Within1(n, col)) >>
    \o (IF col >= FC_START
        THEN << W(n["  1-2 years"], col, N_MaturityShare(n, AROW_MAT_1_2, col)),
                W(n["  2-5 years"], col, N_MaturityShare(n, AROW_MAT_2_5, col)) >>
        ELSE <<>>)
    \o << W(n["  Over 5 years"], col, N_Over5(n, col)),
          W(n["  Total (maturity check)"], col, N_MaturityTotal(n, col)),
          W(n["  Interest expense"], col, N_InterestExpense(n, is, col)) >>
    \o (IF col >= FC_START
        THEN << W(n["  Capitalised borrowing costs"], col, N_CapitalisedCosts(n, col)) >>
        ELSE <<>>)
    \o << W(n["  Effective interest rate"], col, N_EffectiveRate(n, col)) >>

\* Note 5: income tax, FY21-FY30.
N_PBT(n, is, col) == F(X(SheetIS, col, is["Profit / (Loss) before tax"]))
\* =<col><pbt>*-Assumptions!<col><AROW_STAT_TAX>
N_TaxAtStatutory(n, col) ==
    F(Mul(R(col, n["Profit before tax"]), Neg(A(col, AROW_STAT_TAX))))
N_TaxAdjustments(n, col) ==
    F(Add(Add(R(col, n["  Non-deductible amortisation"]),
              R(col, n["  Tax concessions & offsets"])),
          R(col, n["  Other permanent differences"])))
N_TaxExpense(n, is, col) == F(X(SheetIS, col, is["Income tax (expense) / benefit"]))
\* =<col><Income tax expense>/<col><Profit before tax>
N_ETR(n, col) ==
    F(Div(R(col, n["Income tax expense"]), R(col, n["Profit before tax"])))
N_ETRAssumed(n, col) == F(A(col, AROW_TAX))

Note5Writes(n, is, col) ==
    << W(n["Profit before tax"], col, N_PBT(n, is, col)),
       W(n["Tax at statutory rate (30%)"], col, N_TaxAtStatutory(n, col)) >>
    \o (IF col >= FC_START
        THEN << W(n["  Non-deductible amortisation"], col, F(A(col, AROW_NON_DED))),
                W(n["  Tax concessions & offsets"], col, F(A(col, AROW_TAX_CONC))),
                W(n["  Other permanent differences"], col, F(A(col, AROW_OTHER_PERM))) >>
        ELSE <<>>)
    \o << W(n["Total tax adjustments"], col, N_TaxAdjustments(n, col)),
          W(n["Income tax expense"], col, N_TaxExpense(n, is, col)),
          W(n["Effective tax rate"], col, N_ETR(n, col)),
          W(n["ETR per Assumptions"], col, N_ETRAssumed(n, col)) >>

\* Note 6: dividends / distributions, FY21-FY30; cf is CF_ROW.
N_DistributionsPaid(n, cf, col) ==
    F(X(SheetCF, col, cf["Dividends / distributions paid"]))
\* =-<col><dist paid>/'Income Statement'!<col><npat>
N_PayoutRatio(n, is, col) ==
    F(Div(Neg(R(col, n["Total distributions paid"])),
          X(SheetIS, col, is["Net Profit / (Loss) After Tax"])))

Note6Writes(n, cf, is, col) ==
    << W(n["DPS (cents per security)"], col, F(A(col, AROW_DPS))),
       W(n["Securities on issue (m)"], col, F(A(col, AROW_SHARES))),
       W(n["Total distributions paid"], col, N_DistributionsPaid(n, cf, col)),
       W(n["Payout ratio (% of NPAT)"], col, N_PayoutRatio(n, is, col)) >>
    \o (IF col >= FC_START THEN << W(n["Franking credits"], col, Whole(0)) >> ELSE <<>>)

\* Note 7: commitments & contingencies, forecast columns only.
N_CapitalCommitments(n, col) == F(Mul(A(col, AROW_CAPEX), A(col, AROW_CAP_COMMIT)))
N_OperatingLease(n, col) ==
    BS_Grow(n["Operating lease commitments"], AROW_OP_LEASE_GR, col)
N_Contingent(n, col) == F(A(col, AROW_CONTINGENT))

Note7Writes(n, col) ==
    IF col >= FC_START
    THEN << W(n["Capital commitments"], col, N_CapitalCommitments(n, col)),
            W(n["Operating lease commitments"], col, N_OperatingLease(n, col)),
            W(n["Contingent liabilities"], col, N_Contingent(n, col)) >>
    ELSE <<>>

\* The columns FY21..FY30 and the historical ones.
AllCols == [i \in 1..(FC_END - HIST_START + 1) |-> HIST_START + i - 1]
HistCols == [i \in 1..(HIST_END - HIST_START + 1) |-> HIST_START + i - 1]

\* The formula loops of the Notes, one note after the other.
NotesFormulaWrites(n, cf, bs, is) ==
    Flatten([i \in 1..Len(AllCols) |-> Note1Writes(n, is, AllCols[i])])
    \o Flatten([i \in 1..Len(HistCols) |-> Note2Writes(n, is, HistCols[i])])
    \o Flatten([i \in 1..Len(AllCols) |-> Note3Writes(n, bs, is, AllCols[i])])
    \o Flatten([i \in 1..Len(AllCols) |-> Note4Writes(n, bs, is, AllCols[i])])
    \o Flatten([i \in 1..Len(AllCols) |-> Note5Writes(n, is, AllCols[i])])
    \o Flatten([i \in 1..Len(AllCols) |-> Note6Writes(n, cf, is, AllCols[i])])
    \o Flatten([i \in 1..Len(AllCols) |-> Note7Writes(n, AllCols[i])])

(***************************************************************************)
(* The declarations a run starts from.                                     *)
(***************************************************************************)
\* The lists is_items, bs_items, cf_items and notes_items are data of the
\* script.  Besides the lists as declared, a run may start from lists in
\* which one label was changed or one row was added, as after an edit of the
\* declarations that left the formula rules and the pre-computed label
\* lists alone.
Relabel(items, old, new) ==
    [i \in DOMAIN items |->
        IF items[i].label = old THEN [items[i] EXCEPT !.label = new] ELSE items[i]]
Spacer == Item("", "", <<>>, FALSE, FALSE)
WithSpacer(items, k) ==
    SubSeq(items, 1, k) \o << Spacer >> \o SubSeq(items, k + 1, Len(items))

Declarations ==
    {"declared", "is_relabelled", "bs_relabelled", "bs_shifted", "cf_relabelled",
     "cf_shifted", "notes_relabelled"}

ItemsIS(d) ==
    IF d = "is_relabelled" THEN Relabel(is_items, "Total Revenue", "Revenue")
    ELSE is_items
ItemsBS(d) ==
    IF d = "bs_relabelled" THEN Relabel(bs_items, "Share capital", "Contributed equity")
    ELSE IF d = "bs_shifted" THEN WithSpacer(bs_items, 6)
    ELSE bs_items
ItemsCF(d) ==
    IF d = "cf_relabelled" THEN Relabel(cf_items, "Capital expenditure", "Capex")
    ELSE IF d = "cf_shifted" THEN WithSpacer(cf_items, 6)
    ELSE cf_items
ItemsN(d) ==
    IF d = "notes_relabelled" THEN Relabel(notes_items, "Sydney", "Sydney (NSW)")
    ELSE notes_items

\* The orders in which a for loop over the list seq visits its elements: a
\* Python list is visited in index order.
Iterate_Unordered(seq) == {seq, [i \in DOMAIN seq |-> seq[Len(seq) + 1 - i]]}
Iterate(seq) == {seq}

(***************************************************************************)
(* The script, section by section.                                         *)
(***************************************************************************)
NoRegistry == [l \in {} |-> 0]

NoSnap == [st |-> "none", d |-> 0, vals |-> <<>>, moved |-> FALSE]

\* Nothing is kept of an earlier run.
NoPrior == [reg |-> <<>>, cells |-> <<>>]

\* wb = Workbook(): one default sheet, nothing written, nothing saved.
Fresh ==
    /\ pc' = "assumptions"
    /\ sheets' = << "Sheet" >>
    /\ cells' = BySheet(LAMBDA s : BlankSheet)
    /\ wcount' = BySheet(LAMBDA s : ZeroSheet)
    /\ reg' = BySheet(LAMBDA s : NoRegistry)
    /\ saved' = FALSE

Init ==
    /\ pc = "assumptions"
    /\ sheets = << "Sheet" >>
    /\ cells = BySheet(LAMBDA s : BlankSheet)
    /\ wcount = BySheet(LAMBDA s : ZeroSheet)
    /\ reg = BySheet(LAMBDA s : NoRegistry)
    /\ saved = FALSE
    /\ chain = <<>>
    /\ val = BySheet(LAMBDA s : ZeroSheet)
    /\ edits = 0
    /\ snap = NoSnap
    /\ decl \in Declarations
    /\ run = 1
    /\ prior = NoPrior

\* The sheet s receives the writes ws, in order.
Written(s, ws) ==
    \E w \in {ws} :
        /\ cells' = [cells EXCEPT ![s] = PutAll(@, w)]
        /\ wcount' = [wcount EXCEPT ![s] = CountAll(@, w)]

\* A variant in which a failed lookup or assertion is passed over.
Abort_Proceeds ==
    /\ pc' = "save"
    /\ UNCHANGED <<cells, wcount>>

\* An uncaught exception ends the script; nothing is saved.
Abort ==
    /\ pc' = "aborted"
    /\ UNCHANGED <<cells, wcount>>

\* Section 1: ws_a = wb.active; ws_a.title = "Assumptions"; every toggle,
\* input row and active row.
BuildAssumptions ==
    /\ pc = "assumptions"
    /\ sheets' = << SheetA >>
    /\ Written(SheetA, AssumptionsWrites)
    /\ pc' = "is"
    /\ UNCHANGED <<reg, saved, chain, val, edits, snap, decl, run, prior>>

\* Section 2: the Income Statement; IS_ROW is filled by the walk and read
\* by the forecast loop.
BuildIncomeStatement ==
    /\ pc = "is"
    /\ sheets' = Append(sheets, SheetIS)
    /\ \E items \in Iterate(ItemsIS(decl)) :
        /\ reg' = [reg EXCEPT ![SheetIS] = Registry(Labels(items), IS_START)]
        /\ IF IS_LOOKUPS \subseteq DOMAIN reg'[SheetIS]
           THEN /\ Written(SheetIS, ISWrites(items, reg'[SheetIS]))
                /\ pc' = "bs"
           ELSE Abort
    /\ UNCHANGED <<saved, chain, val, edits, snap, decl, run, prior>>

\* Section 3: the Balance Sheet; the two pre-computed rows are asserted
\* after the walk and before any formula is written.
BuildBalanceSheet ==
    /\ pc = "bs"
    /\ sheets' = Append(sheets, SheetBS)
    /\ \E items \in Iterate(ItemsBS(decl)) :
        /\ reg' = [reg EXCEPT ![SheetBS] = Registry(Labels(items), BS_START)]
        /\ IF /\ BS_LOOKUPS \subseteq DOMAIN reg'[SheetBS]
              /\ BS_IS_LOOKUPS \subseteq DOMAIN reg[SheetIS]
              /\ BSRowsAsserted(reg'[SheetBS])
           THEN /\ Written(SheetBS,
                           BSWalkWrites(items)
                           \o BSFormulaWrites(reg'[SheetBS], reg[SheetIS]))
                /\ pc' = "cf"
           ELSE Abort
    /\ UNCHANGED <<saved, chain, val, edits, snap, decl, run, prior>>

\* Section 4: the Cash Flow Statement; the pre-computed closing-cash row is
\* asserted after the walk.
BuildCashFlow ==
    /\ pc = "cf"
    /\ sheets' = Append(sheets, SheetCF)
    /\ \E items \in Iterate(ItemsCF(decl)) :
        /\ reg' = [reg EXCEPT ![SheetCF] = Registry(Labels(items), CF_START)]
        /\ IF /\ CF_LOOKUPS \subseteq DOMAIN reg'[SheetCF]
              /\ CFRowAsserted(reg'[SheetCF])
           THEN /\ Written(SheetCF,
                           CFWalkWrites(items)
                           \o CFFormulaWrites(reg'[SheetCF], reg[SheetBS], reg[SheetIS]))
                /\ pc' = "notes"
           ELSE Abort
    /\ UNCHANGED <<saved, chain, val, edits, snap, decl, run, prior>>

\* Section 5: the Notes.
BuildNotes ==
    /\ pc = "notes"
    /\ sheets' = Append(sheets, SheetN)
    /\ \E items \in Iterate(ItemsN(decl)) :
        /\ reg' = [reg EXCEPT ![SheetN] = Registry(Labels(items), NOTES_START)]
        /\ IF NOTES_LOOKUPS \subseteq DOMAIN reg'[SheetN]
           THEN /\ Written(SheetN,
                           NotesWalkWrites(items)
                           \o NotesFormulaWrites(reg'[SheetN], reg[SheetCF],
                                                 reg[SheetBS], reg[SheetIS]))
                /\ pc' = "save"
           ELSE Abort
    /\ UNCHANGED <<saved, chain, val, edits, snap, decl, run, prior>>

\* Section 7: wb.save(OUTPUT_PATH).
Save ==
    /\ pc = "save"
    /\ saved' = TRUE
    /\ pc' = "saved"
    /\ UNCHANGED <<sheets, cells, wcount, reg, chain, val, edits, snap, decl, run, prior>>

\* The script is run a second time from the same declarations, in a new
\* process; what the first run registered and wrote is kept for comparison.
Rerun ==
    /\ pc = "saved"
    /\ run = 1
    /\ run' = 2
    /\ prior' = [reg |-> reg, cells |-> cells]
    /\ Fresh
    /\ UNCHANGED <<chain, val, edits, snap, decl>>

(***************************************************************************)
(* The workbook in the host spreadsheet.                                   *)
(***************************************************************************)
\* The host opens the saved file, orders the formula cells and calculates.
Open ==
    /\ pc = "saved"
    /\ saved
    /\ chain' = CalcChain(cells)
    /\ val' = Recalc(cells, chain')
    /\ pc' = "open"
    /\ run' = 1
    /\ prior' = NoPrior
    /\ UNCHANGED <<sheets, cells, wcount, reg, saved, edits, snap, decl>>

\* What a user may type into a toggle cell.
Tokens == {TOKEN_DEFAULT, TOKEN_AVG, "Manual"}
ToggleRows == {toggle_items[i][1] : i \in DOMAIN toggle_items}

\* Input cells the user overwrites: <<row, column, n, d>> puts n/d there.
InputEdits ==
    { <<15, HIST_END, 0, 1>>, <<15, FC_START, 10, 100>>, <<55, FC_START, 1000, 1>>,
      <<24, FC_START, 30, 100>>, <<39, FC_START, 10, 100>>, <<57, FC_START, 2, 100>> }

\* The record of the last switch of a toggle from direct input to the
\* trailing average: the values before it and, once the same toggle is
\* switched back with nothing else changed in between, whether the values in
\* between differed from them.
AfterToggle(d, tok) ==
    IF tok = TOKEN_AVG
    THEN [st |-> "out", d |-> d, vals |-> val, moved |-> FALSE]
    ELSE IF snap.st = "out" /\ snap.d = d
         THEN [snap EXCEPT !.st = "back", !.moved = (val # snap.vals)]
         ELSE NoSnap

\* The user selects tok in the toggle cell of row d; the host recalculates.
SetToggle(d, tok) ==
    /\ pc = "open"
    /\ edits < MaxEdits
    /\ cells[SheetA][d][UNIT_COL] # Str(tok)
    /\ cells' = [cells EXCEPT ![SheetA][d][UNIT_COL] = Str(tok)]
    /\ val' = RecalcAfter(cells', chain, val, <<SheetA, d, UNIT_COL>>)
    /\ snap' = AfterToggle(d, tok)
    /\ edits' = edits + 1
    /\ UNCHANGED <<pc, sheets, wcount, reg, saved, chain, decl, run, prior>>

\* The user overwrites an input cell; the host recalculates.
EditInput(e) ==
    /\ pc = "open"
    /\ edits < MaxEdits
    /\ cells[SheetA][e[1]][e[2]] # Num(e[3], e[4])
    /\ cells' = [cells EXCEPT ![SheetA][e[1]][e[2]] = Num(e[3], e[4])]
    /\ val' = RecalcAfter(cells', chain, val, <<SheetA, e[1], e[2]>>)
    /\ snap' = NoSnap
    /\ edits' = edits + 1
    /\ UNCHANGED <<pc, sheets, wcount, reg, saved, chain, decl, run, prior>>

Next ==
    \/ BuildAssumptions
    \/ BuildIncomeStatement
    \/ BuildBalanceSheet
    \/ BuildCashFlow
    \/ BuildNotes
    \/ Save
    \/ Rerun
    \/ Open
    \/ \E d \in ToggleRows, tok \in Tokens : SetToggle(d, tok)
    \/ \E e \in InputEdits : EditInput(e)

Spec == Init /\ [][Next]_vars

(***************************************************************************)
(* Properties.                                                             *)
(***************************************************************************)
\* The workbook is open in the host and calculated.
Opened == pc = "open"
\* The script has written every sheet.
Generated == pc \in {"save", "saved", "open"}

Periods == HIST_START..FC_END
HistPeriods == HIST_START..HIST_END
ForecastPeriods == FC_START..FC_END

\* The calculated value of the row labelled l of statement s in column c.
V(s, l, c) == val[s][reg[s][l]][c]
\* The calculated value of row r of the Assumptions sheet in column c.
VA(r, c) == val[SheetA][r][c]

\* The toggled drivers: the active rows of the Assumptions sheet.
Drivers ==
    {assumption_rows[i] : i \in {j \in DOMAIN assumption_rows :
                                    assumption_rows[j].kind = "active"}}
ToggleCell(a) == cells[SheetA][a.toggle_cell[2]][a.toggle_cell[1]]
InAverageMode(a) == ToggleCell(a) = Str(TOKEN_AVG)

\* The mean of the raw inputs of row r over FY23, FY24 and FY25.
Mean3(r) ==
    FDiv(FAdd(FAdd(VA(r, HIST_END - 2), VA(r, HIST_END - 1)), VA(r, HIST_END)), 3)

\* C1: in every one of the ten periods the Balance Sheet check cell, Total
\* Assets minus Total Liabilities & Equity, calculates to 0.
C1_BalanceCheckIsZero ==
    Opened => \A c \in Periods : V(SheetBS, "Balance Sheet Check (Assets - L&E)", c) = 0

\* C2: the generated workbook has no reference cycle: its formula cells can
\* be put in one order in which every formula cell comes after each formula
\* cell it refers to, and one pass in that order calculates every cell.
C2_NoReferenceCycle ==
    (Opened /\ edits = 0) =>
        LET fc == FormulaCells(cells)
            at == [x \in fc |-> CHOOSE i \in DOMAIN chain : chain[i] = x]
        IN /\ {chain[i] : i \in DOMAIN chain} = fc
           /\ Len(chain) = Cardinality(fc)
           /\ \A x \in fc : \A y \in RefsOfCell(cells, x) \cap fc : at[y] < at[x]
           /\ \A x \in fc : val[x[1]][x[2]][x[3]] # Pending

\* The Balance Sheet takes its forecast cash from the Cash Flow Statement,
\* whose opening cash comes back from the Balance Sheet of the year before,
\* and both are calculated.
C2_Witness ==
    /\ Opened /\ edits = 0
    /\ cells[SheetBS][reg[SheetBS]["Cash & cash equivalents"]][FC_END].k = "f"
    /\ cells[SheetCF][reg[SheetCF]["Opening cash balance"]][FC_END].k = "f"
    /\ V(SheetBS, "Cash & cash equivalents", FC_END) >= 0
    /\ Len(chain) > 0

\* C3: in every period the intangible roll-forward of the Notes closes, and
\* its closing balance equals the Balance Sheet's intangible assets, i.e. the
\* cross-check row equals the closing-balance row.
C3_RollForwardTiesToBalanceSheet ==
    Opened =>
        \A c \in Periods :
            /\ V(SheetN, "Closing balance", c)
                 = FAdd(FAdd(V(SheetN, "Opening balance", c),
                             V(SheetN, "Additions (capitalised construction)", c)),
                        V(SheetN, "Amortisation charge", c))
            /\ V(SheetN, "Closing balance", c)
                 = V(SheetBS, "Intangible assets (concessions)", c)
            /\ V(SheetN, "Cross-check to BS", c) = V(SheetN, "Closing balance", c)

\* C4: in every period the four maturity buckets of the Notes add up to the
\* Balance Sheet's total borrowings of that period.
C4_MaturityBucketsSumToBorrowings ==
    Opened =>
        \A c \in Periods :
            /\ V(SheetN, "  Over 5 years", c) >= 0
            /\ FAdd(FAdd(FAdd(V(SheetN, "  Within 1 year", c), V(SheetN, "  1-2 years", c)),
                         V(SheetN, "  2-5 years", c)),
                    V(SheetN, "  Over 5 years", c))
                 = V(SheetBS, "Total Borrowings (current + non-current)", c)
            /\ V(SheetN, "  Total (maturity check)", c)
                 = V(SheetBS, "Total Borrowings (current + non-current)", c)

\* The user has changed FY26 net debt issuance, so the borrowings reconciled
\* are not the ones the script wrote.
C4_Witness ==
    /\ Opened
    /\ cells[SheetA][AROW_NET_DEBT][FC_START] = Num(1000, 1)
    /\ V(SheetBS, "Total Borrowings (current + non-current)", FC_START)
         = FAdd(V(SheetBS, "Total Borrowings (current + non-current)", HIST_END), 1000)
    /\ V(SheetN, "  Total (maturity check)", FC_START)
         = V(SheetBS, "Total Borrowings (current + non-current)", FC_START)
    /\ V(SheetN, "  Over 5 years", FC_START) > 0

\* C5: for each of the six toggled drivers the active value of a historical
\* period is the raw input of that period; the active value of a forecast
\* period is the trailing average when the driver's toggle cell holds the
\* trailing-average token, and the raw input of that period for any other
\* content of the toggle cell.
C5_ActiveValueFollowsToggle ==
    Opened =>
        /\ Cardinality(Drivers) = Len(toggle_items)
        /\ \A a \in Drivers :
            /\ \A c \in HistPeriods : VA(a.row, c) = VA(a.input_row, c)
            /\ \A c \in ForecastPeriods :
                VA(a.row, c) = IF InAverageMode(a) THEN Mean3(a.input_row)
                               ELSE VA(a.input_row, c)

\* One driver is on the trailing average, one holds a token that is neither
\* of the two the script knows, one holds the default, and the average
\* differs from the raw input.
C5_Witness ==
    /\ Opened
    /\ \E a, b, d \in Drivers :
        /\ InAverageMode(a) /\ VA(a.row, FC_START) # VA(a.input_row, FC_START)
        /\ ToggleCell(b) = Str("Manual") /\ VA(b.row, FC_START) # Mean3(b.input_row)
        /\ ToggleCell(d) = Str(TOKEN_DEFAULT)

\* C6: while a driver is on the trailing average its active value is the
\* same in all five forecast periods and is the mean of its raw inputs of
\* FY23, FY24 and FY25, whatever the raw inputs of the forecast periods are.
C6_AverageWindowIsFixed ==
    Opened =>
        \A a \in Drivers :
            InAverageMode(a) =>
                /\ cells[SheetA][12][HIST_END - 2] = Str("FY23")
                /\ cells[SheetA][12][HIST_END] = Str("FY25")
                /\ \A c, d \in ForecastPeriods : VA(a.row, c) = VA(a.row, d)
                /\ \A c \in ForecastPeriods : VA(a.row, c) = Mean3(a.input_row)

\* Toll growth is on the trailing average after its FY25 raw input was
\* changed: the average moved with it, and it is not the raw input of FY26.
C6_Witness ==
    /\ Opened
    /\ \E a \in Drivers :
        /\ InAverageMode(a)
        /\ a.row = AROW_TOLL_GR
        /\ cells[SheetA][a.input_row][HIST_END] = Num(0, 1)
        /\ VA(a.row, FC_END) = FDiv(FAdd(VA(a.input_row, HIST_END - 2),
                                         VA(a.input_row, HIST_END - 1)), 3)
        /\ VA(a.row, FC_START) # VA(a.input_row, FC_START)

\* C7: when a toggle is switched from direct input to the trailing average
\* and then back to direct input, every forecast cell of every sheet has the
\* value it had before the two switches.
C7_ToggleOutAndBackRestores ==
    snap.st = "back" =>
        \A s \in SheetNames : \A r \in 1..MaxRow : \A c \in ForecastPeriods :
            val[s][r][c] = snap.vals[s][r][c]

\* A toggle was switched out and back, and in between the forecast was a
\* different one.
C7_Witness ==
    /\ snap.st = "back"
    /\ snap.moved
    /\ cells[SheetA][snap.d][UNIT_COL] # Str(TOKEN_AVG)
    /\ V(SheetIS, "Toll revenue", FC_END) = snap.vals[SheetIS][reg[SheetIS]["Toll revenue"]][FC_END]

TollGrowth == CHOOSE a \in Drivers : a.row = AROW_TOLL_GR

\* C8: FY26 toll revenue is FY25 toll revenue times one plus the mean of the
\* FY23-FY25 raw toll-growth inputs when the toll-growth toggle is on the
\* trailing average, and times one plus the FY26 raw toll-growth input when
\* it is not; in each later forecast period toll revenue is the toll revenue
\* of the period before times one plus that period's active toll growth.
C8_TollRevenueForecast ==
    Opened =>
        /\ V(SheetIS, "Toll revenue", FC_START)
             = FMul(V(SheetIS, "Toll revenue", HIST_END),
                    FAdd(1, IF InAverageMode(TollGrowth)
                            THEN Mean3(TollGrowth.input_row)
                            ELSE VA(TollGrowth.input_row, FC_START)))
        /\ \A c \in (FC_START + 1)..FC_END :
            V(SheetIS, "Toll revenue", c)
              = FMul(V(SheetIS, "Toll revenue", c - 1), FAdd(1, VA(AROW_TOLL_GR, c)))

\* Toll growth is on the trailing average, which is not the FY26 raw input,
\* and FY26 toll revenue has grown by it.
C8_Witness ==
    /\ Opened
    /\ InAverageMode(TollGrowth)
    /\ Mean3(TollGrowth.input_row) # VA(TollGrowth.input_row, FC_START)
    /\ V(SheetIS, "Toll revenue", FC_START)
         # FMul(V(SheetIS, "Toll revenue", HIST_END),
                FAdd(1, VA(TollGrowth.input_row, FC_START)))
    /\ V(SheetIS, "Toll revenue", FC_START) # V(SheetIS, "Toll revenue", HIST_END)

\* The raw-input rows of the toggled drivers.
RawInputRows == {a.input_row : a \in Drivers}
\* The cells of the Assumptions sheet that the formula in cell x refers to.
AssumptionRefs(x) == {y \in RefsOfCell(cells, x) : y[1] = SheetA}

\* C9: the raw-input rows of the toggled drivers are rows 15, 17, 21, 28, 34
\* and 36 of the Assumptions sheet, and no formula of another sheet refers to
\* a cell of one of them.
C9_NoFormulaReadsRawInput ==
    Generated =>
        /\ RawInputRows = {15, 17, 21, 28, 34, 36}
        /\ \A x \in FormulaCells(cells) :
            x[1] # SheetA => \A y \in AssumptionRefs(x) : y[2] \notin RawInputRows

\* Each of the six active rows is read by a formula of another sheet.
C9_Witness ==
    /\ pc = "save"
    /\ \A a \in Drivers :
        \E x \in FormulaCells(cells) :
            /\ x[1] # SheetA
            /\ \E y \in AssumptionRefs(x) : y[2] = a.row

\* The labels of the line items declared for each statement, in the order of
\* declaration, and the row of the first of them.
Declared ==
    (SheetIS :> Labels(is_items)) @@ (SheetBS :> Labels(bs_items))
    @@ (SheetCF :> Labels(cf_items)) @@ (SheetN :> Labels(notes_items))
StartRow ==
    (SheetIS :> IS_START) @@ (SheetBS :> BS_START)
    @@ (SheetCF :> CF_START) @@ (SheetN :> NOTES_START)

\* C10: in a generation that ran to completion no statement declares a label
\* twice: each statement's registry gives every declared line item (the
\* blank spacer rows aside) the row it was written to.
C10_RegistryIsInjective ==
    Generated =>
        \A s \in DOMAIN Declared : \A i \in DOMAIN Declared[s] :
            Declared[s][i] # "" => reg[s][Declared[s][i]] = StartRow[s] + i - 1

(***************************************************************************)
(* Errors and the save.                                                    *)
(***************************************************************************)
\* The section that has just run found every label it looks up and every
\* row it asserts: reg is the registry after the section.
SectionFound(section, r) ==
    CASE section = "is" -> IS_LOOKUPS \subseteq DOMAIN r[SheetIS]
      [] section = "bs" ->
           /\ BS_LOOKUPS \subseteq DOMAIN r[SheetBS]
           /\ BS_IS_LOOKUPS \subseteq DOMAIN r[SheetIS]
           /\ r[SheetBS]["Total Non-Current Assets"] = BS_NCA_ROW
           /\ r[SheetBS]["Total Borrowings (current + non-current)"] = BS_DEBT_ROW
      [] section = "cf" ->
           /\ CF_LOOKUPS \subseteq DOMAIN r[SheetCF]
           /\ r[SheetCF]["Closing Cash Balance"] = CF_CLOSE_CASH_ROW
      [] section = "notes" -> NOTES_LOOKUPS \subseteq DOMAIN r[SheetN]
      [] OTHER -> TRUE

\* Every sheet is there with its registry, its asserted rows and the last
\* formula its section writes.
AllSectionsComplete ==
    /\ sheets = << SheetA, SheetIS, SheetBS, SheetCF, SheetN >>
    /\ \A section \in {"is", "bs", "cf", "notes"} : SectionFound(section, reg)
    /\ cells[SheetA][AROW_TAX][FC_END].k = "f"
    /\ cells[SheetIS][reg[SheetIS]["Net Profit / (Loss) After Tax"]][FC_END].k = "f"
    /\ cells[SheetBS][reg[SheetBS]["Balance Sheet Check (Assets - L&E)"]][FC_END].k = "f"
    /\ cells[SheetCF][reg[SheetCF]["Closing Cash Balance"]][FC_END].k = "f"
    /\ cells[SheetN][reg[SheetN]["Contingent liabilities"]][FC_END].k = "f"

\* C11: a section that looks up a label its statement has not registered, or
\* whose row assertion fails, ends the run there and then, and a run that
\* ended so has saved nothing; the workbook is saved only from a run in
\* which every section has completed, and a run that has saved does not
\* come to the save again.
C11_SaveOnlyAfterCompleteGeneration ==
    [][ /\ (pc \in {"is", "bs", "cf", "notes"} /\ ~SectionFound(pc, reg'))
             => (pc' = "aborted" /\ ~saved')
        /\ pc = "aborted" => (pc' = "aborted" /\ ~saved')
        /\ (saved' /\ ~saved) => (pc = "save" /\ AllSectionsComplete)
        /\ saved => pc' # "save"
        /\ (saved /\ ~saved') => (pc = "saved" /\ pc' = "assumptions" /\ run' = run + 1)
      ]_vars

\* The Notes section looked up a label that notes_items does not declare,
\* after four sheets had been filled: the run has ended and saved nothing.
C11_Witness ==
    /\ pc = "aborted"
    /\ ~saved
    /\ decl = "notes_relabelled"
    /\ sheets = << SheetA, SheetIS, SheetBS, SheetCF, SheetN >>
    /\ "Sydney" \notin DOMAIN reg[SheetN]
    /\ "Sydney" \in NOTES_LOOKUPS
    /\ cells[SheetCF][reg[SheetCF]["Closing Cash Balance"]][FC_END].k = "f"

\* The sections that have run to their end when the script is at pc.
Assembled ==
    CASE pc = "cf" -> {SheetIS, SheetBS}
      [] pc = "notes" -> {SheetIS, SheetBS, SheetCF}
      [] pc \in {"save", "saved", "open"} -> {SheetIS, SheetBS, SheetCF, SheetN}
      [] pc = "bs" -> {SheetIS}
      [] OTHER -> {}

\* The rows computed from a label list before their statement is walked.
PreComputed ==
    (SheetBS :> {BS_NCA_ROW, BS_DEBT_ROW}) @@ (SheetCF :> {CF_CLOSE_CASH_ROW})
    @@ (SheetIS :> {}) @@ (SheetN :> {})
\* The rows of sheet t read by a formula of sheet s.
RowsRead(s, t) ==
    {y[2] : y \in {z \in UNION {RefsOfCell(cells, x) :
                                  x \in {w \in FormulaCells(cells) : w[1] = s}} :
                     z[1] = t}}
\* s is walked before t.
WalkedBefore(s, t) ==
    \E i, j \in DOMAIN SheetOrder : i < j /\ SheetOrder[i] = s /\ SheetOrder[j] = t

\* C12: once the Balance Sheet is assembled its registry has Total
\* Non-Current Assets and Total Borrowings at the pre-computed rows, and once
\* the Cash Flow Statement is assembled its registry has Closing Cash
\* Balance at the pre-computed row; a run in which they differ has ended at
\* the assertion; the formulas of a sheet read no other row of a statement
\* that is walked after it.
C12_PreComputedRowsAreAsserted ==
    /\ SheetBS \in Assembled =>
        /\ reg[SheetBS]["Total Non-Current Assets"] = bs_row_map["Total Non-Current Assets"]
        /\ reg[SheetBS]["Total Borrowings (current + non-current)"]
             = bs_row_map["Total Borrowings (current + non-current)"]
    /\ SheetCF \in Assembled =>
        reg[SheetCF]["Closing Cash Balance"] = cf_row_map["Closing Cash Balance"]
    /\ decl \in {"bs_shifted", "cf_shifted"} => pc # "save" /\ ~saved
    /\ pc = "save" =>
        \A s, t \in {SheetIS, SheetBS, SheetCF, SheetN} :
            WalkedBefore(s, t) => RowsRead(s, t) \subseteq PreComputed[t]

\* cf_items has a row more than the label list the closing-cash row was
\* computed from: the run ended at the assertion, after the walk.
C12_Witness ==
    /\ pc = "aborted"
    /\ decl = "cf_shifted"
    /\ "Closing Cash Balance" \in DOMAIN reg[SheetCF]
    /\ reg[SheetCF]["Closing Cash Balance"] = CF_CLOSE_CASH_ROW + 1
    /\ CF_LOOKUPS \subseteq DOMAIN reg[SheetCF]
    /\ ~saved

(***************************************************************************)
(* The historical literals.                                                *)
(***************************************************************************)
\* The content of the cell of the row labelled l of statement s, column c,
\* and the whole number it holds.
Cell(s, l, c) == cells[s][reg[s][l]][c]
IsWhole(x) == x.k = "num" /\ x.d = 1
Lit(s, l, c) == Cell(s, l, c).n

\* C13: in every historical period the Retained earnings literal on the
\* Balance Sheet is the Total Assets literal minus the Total Liabilities,
\* Share capital and Reserves literals of that period.
C13_RetainedEarningsIsThePlug ==
    SheetBS \in Assembled =>
        \A c \in HistPeriods :
            /\ \A l \in {"Retained earnings / (losses)", "Total Assets",
                         "Total Liabilities", "Share capital", "Reserves"} :
                    IsWhole(Cell(SheetBS, l, c))
            /\ Lit(SheetBS, "Retained earnings / (losses)", c)
                 = Lit(SheetBS, "Total Assets", c) - Lit(SheetBS, "Total Liabilities", c)
                   - Lit(SheetBS, "Share capital", c) - Lit(SheetBS, "Reserves", c)

\* The Balance Sheet is written; FY21 retained earnings are a loss of 3847,
\* which is 34601 - 24245 - 13845 - 358.
C13_Witness ==
    /\ pc = "cf"
    /\ Cell(SheetBS, "Retained earnings / (losses)", HIST_START) = Whole(0 - 3847)
    /\ Lit(SheetBS, "Total Assets", HIST_START) = 34601
    /\ Lit(SheetBS, "Total Liabilities", HIST_START) = 24245

\* C16: in every historical period the Cash Flow literals satisfy Opening
\* cash + Net increase/(decrease) in cash + FX & other adjustments = Closing
\* Cash Balance, the Closing Cash Balance is the Balance Sheet Cash literal
\* of the period, and from FY22 on the Opening cash is the Balance Sheet
\* Cash literal of the period before.
C16_HistoricalCashReconciles ==
    SheetCF \in Assembled =>
        \A c \in HistPeriods :
            /\ \A l \in {"Opening cash balance", "Net increase / (decrease) in cash",
                         "FX & other adjustments", "Closing Cash Balance"} :
                    IsWhole(Cell(SheetCF, l, c))
            /\ IsWhole(Cell(SheetBS, "Cash & cash equivalents", c))
            /\ Lit(SheetCF, "Opening cash balance", c)
                 + Lit(SheetCF, "Net increase / (decrease) in cash", c)
                 + Lit(SheetCF, "FX & other adjustments", c)
                 = Lit(SheetCF, "Closing Cash Balance", c)
            /\ Lit(SheetCF, "Closing Cash Balance", c)
                 = Lit(SheetBS, "Cash & cash equivalents", c)
            /\ c > HIST_START =>
                 Lit(SheetCF, "Opening cash balance", c)
                   = Lit(SheetBS, "Cash & cash equivalents", c - 1)

\* The Cash Flow Statement is written; the FX line is a plug that is not
\* zero, and FY22 opens with the FY21 cash of the Balance Sheet.
C16_Witness ==
    /\ pc = "notes"
    /\ Lit(SheetCF, "FX & other adjustments", HIST_START) # 0
    /\ Lit(SheetCF, "Opening cash balance", HIST_START) = 2285
    /\ Lit(SheetCF, "Opening cash balance", HIST_START + 1) = 2548
    /\ Lit(SheetBS, "Cash & cash equivalents", HIST_START) = 2548

\* The rows of the four segments' revenue in the Notes.
SegmentRevenueRows ==
    {reg[SheetN][l] + 1 :
        l \in {"Melbourne (CityLink)", "Sydney", "Brisbane", "North America"}}
RECURSIVE FSum(_)
FSum(S) == IF S = {} THEN 0
           ELSE LET x == CHOOSE y \in S : TRUE IN FAdd(x[2], FSum(S \ {x}))

\* C17: in every historical period the Notes' Total segment revenue is the
\* sum of the revenue of the four segments and equals the Total Revenue of
\* the Income Statement.
C17_SegmentRevenueReconciles ==
    Opened =>
        \A c \in HistPeriods :
            /\ \A r \in SegmentRevenueRows :
                /\ cells[SheetN][r][LABEL_COL] = Str("  Revenue")
                /\ cells[SheetN][r][c].k = "num"
            /\ Cardinality(SegmentRevenueRows) = 4
            /\ V(SheetN, "Total segment revenue", c)
                 = FSum({<<r, val[SheetN][r][c]>> : r \in SegmentRevenueRows})
            /\ V(SheetN, "Total segment revenue", c) = V(SheetIS, "Total Revenue", c)

\* FY25: 1220 + 1800 + 640 + 690 = 4350 = 3990 + 360.
C17_Witness ==
    /\ Opened
    /\ Cell(SheetN, "Total segment revenue", HIST_END).k = "f"
    /\ V(SheetN, "Total segment revenue", HIST_END) = 4350
    /\ V(SheetIS, "Total Revenue", HIST_END) = 4350
    /\ Lit(SheetIS, "Toll revenue", HIST_END) = 3990

\* C18: in every historical period the Notes' Total segment EBITDA equals
\* the EBITDA of the Income Statement, which the line 'Reconciliation to IS
\* EBITDA' shows.
C18_SegmentEBITDAReconciles ==
    Opened =>
        \A c \in HistPeriods :
            /\ V(SheetN, "Reconciliation to IS EBITDA", c) = V(SheetIS, "EBITDA", c)
            /\ V(SheetN, "Total segment EBITDA", c)
                 = V(SheetN, "Reconciliation to IS EBITDA", c)

(***************************************************************************)
(* What the forecast formulas refer to.                                    *)
(***************************************************************************)
\* The cells the formula at the row labelled l of statement s, column c,
\* refers to; the row of the Assumptions sheet at row r.
RefsAt(s, l, c) == RefsOfCell(cells, <<s, reg[s][l], c>>)
AssumptionAt(r) ==
    CHOOSE a \in {assumption_rows[i] : i \in DOMAIN assumption_rows} : a.row = r

\* C14: in every forecast period p the Income Statement's Depreciation &
\* amortisation formula refers to the Balance Sheet only at Total Non-Current
\* Assets of period p-1 and its Net finance costs formula only at Total
\* Borrowings of period p-1; each refers to the Assumptions sheet only at its
\* active driver of period p (D&A %, cost of debt), and neither refers to a
\* cell of the Cash Flow Statement or to a Balance Sheet cell of period p.
C14_OpeningBalanceConvention ==
    \A c \in ForecastPeriods :
        \A x \in {<<"Depreciation & amortisation", "Total Non-Current Assets", AROW_DA_PCT>>,
                  <<"Net finance costs", "Total Borrowings (current + non-current)", AROW_COD>>} :
            /\ SheetIS \in Assembled =>
                 /\ Cell(SheetIS, x[1], c).k = "f"
                 /\ AssumptionAt(x[3]).kind = "active"
                 /\ {y \in RefsAt(SheetIS, x[1], c) : y[1] = SheetA} = {<<SheetA, x[3], c>>}
                 /\ \A y \in RefsAt(SheetIS, x[1], c) :
                      /\ y[1] \in {SheetA, SheetBS}
                      /\ y[1] = SheetBS => y[3] = c - 1
                 /\ Cardinality({y \in RefsAt(SheetIS, x[1], c) : y[1] = SheetBS}) = 1
            /\ SheetBS \in Assembled =>
                 {y \in RefsAt(SheetIS, x[1], c) : y[1] = SheetBS}
                   = {<<SheetBS, reg[SheetBS][x[2]], c - 1>>}

\* FY26 depreciation reads the FY25 non-current assets of the Balance Sheet
\* and the FY26 active D&A rate.
C14_Witness ==
    /\ pc = "cf"
    /\ RefsAt(SheetIS, "Depreciation & amortisation", FC_START)
         = {<<SheetBS, reg[SheetBS]["Total Non-Current Assets"], HIST_END>>,
            <<SheetA, AROW_DA_PCT, FC_START>>}
    /\ RefsAt(SheetIS, "Net finance costs", FC_END)
         = {<<SheetBS, reg[SheetBS]["Total Borrowings (current + non-current)"], FC_END - 1>>,
            <<SheetA, AROW_COD, FC_END>>}

\* The cells that the cells of S transitively depend on, S included.
RECURSIVE Closure(_, _)
Closure(seen, new) ==
    IF new = {} THEN seen
    ELSE LET all == seen \cup new
             refs == UNION {RefsOfCell(cells, x) :
                              x \in {y \in new : cells[y[1]][y[2]][y[3]].k = "f"}}
         IN Closure(all, {y \in refs : y \notin all})
DependsOn(S) == Closure({}, S)
BSCash(c) == <<SheetBS, reg[SheetBS]["Cash & cash equivalents"], c>>
CFClosingCash(c) == <<SheetCF, reg[SheetCF]["Closing Cash Balance"], c>>

\* C15: in every forecast period p the Balance Sheet's Cash calculates to the
\* Closing Cash Balance of the Cash Flow Statement of period p, and the cells
\* that Closing Cash Balance transitively depends on contain Balance Sheet
\* Cash of no period from p on.
C15_CashFlowsOneWay ==
    \A p \in ForecastPeriods :
        /\ Generated =>
             /\ CFClosingCash(p) \in RefsOfCell(cells, BSCash(p))
             /\ \A D \in {DependsOn({CFClosingCash(p)})} :
                    \A c \in p..FC_END : BSCash(c) \notin D
        /\ Opened =>
             V(SheetBS, "Cash & cash equivalents", p) = V(SheetCF, "Closing Cash Balance", p)

\* FY27's closing cash depends on the Balance Sheet cash of FY26, which in
\* turn is the closing cash of FY26.
C15_Witness ==
    /\ Opened
    /\ {BSCash(FC_START), CFClosingCash(FC_START)}
         \subseteq DependsOn({CFClosingCash(FC_START + 1)})
    /\ V(SheetCF, "Closing Cash Balance", FC_START + 1) \notin {Err, Pending, Text}
    /\ V(SheetBS, "Cash & cash equivalents", FC_START + 1)
         = V(SheetCF, "Closing Cash Balance", FC_START + 1)

(***************************************************************************)
(* Two runs of the script.                                                 *)
(***************************************************************************)
\* The sheets the run has written so far.
WrittenSheets == IF pc = "assumptions" THEN {} ELSE {SheetA} \cup Assembled

RECURSIVE RefTerms(_)
RefTerms(e) ==
    CASE e.op = "ref" -> {e}
      [] e.op = "const" -> {}
      [] e.op = "neg" -> RefTerms(e.a)
      [] e.op \in {"add", "sub", "mul", "div"} -> RefTerms(e.a) \cup RefTerms(e.b)
      [] e.op = "avg" -> {R(c, e.row) : c \in e.c1..e.c2}
      [] e.op = "ifeq" -> RefTerms(e.a) \cup RefTerms(e.t) \cup RefTerms(e.e)

Statements == {SheetIS, SheetBS, SheetCF}

\* The references from one sheet to a statement: the sheet and the label of
\* the line that reads, the statement and the label of the line that is read,
\* and the periods read relative to the period of the reading cell.
Intended ==
    { <<SheetIS, "Depreciation & amortisation", SheetBS, "Total Non-Current Assets", {-1}>>,
      <<SheetIS, "Net finance costs", SheetBS,
        "Total Borrowings (current + non-current)", {-1}>>,
      <<SheetBS, "Cash & cash equivalents", SheetCF, "Closing Cash Balance", {0}>>,
      <<SheetBS, "Trade & other receivables", SheetIS, "Total Revenue", {0}>>,
      <<SheetBS, "Property, plant & equipment", SheetIS, "Depreciation & amortisation", {0}>>,
      <<SheetBS, "Intangible assets (concessions)", SheetIS,
        "Depreciation & amortisation", {0}>>,
      <<SheetBS, "Trade & other payables", SheetIS, "Total Operating Expenses", {0}>>,
      <<SheetBS, "Retained earnings / (losses)", SheetIS,
        "Net Profit / (Loss) After Tax", {0}>>,
      <<SheetCF, "Net profit / (loss) after tax", SheetIS,
        "Net Profit / (Loss) After Tax", {0}>>,
      <<SheetCF, "Add back: D&A", SheetIS, "Depreciation & amortisation", {0}>>,
      <<SheetCF, "Changes in working capital", SheetBS, "Trade & other receivables", {-1, 0}>>,
      <<SheetCF, "Changes in working capital", SheetBS, "Trade & other payables", {-1, 0}>>,
      <<SheetCF, "Equity issuance (DRP & placements)", SheetBS, "Share capital", {-1}>>,
      <<SheetCF, "Opening cash balance", SheetBS, "Cash & cash equivalents", {-1}>>,
      <<SheetN, "Toll revenue", SheetIS, "Toll revenue", {0}>>,
      <<SheetN, "Other revenue", SheetIS, "Other revenue", {0}>>,
      <<SheetN, "Total Revenue", SheetIS, "Total Revenue", {0}>>,
      <<SheetN, "Reconciliation to IS EBITDA", SheetIS, "EBITDA", {0}>>,
      <<SheetN, "Amortisation charge", SheetIS, "Depreciation & amortisation", {0}>>,
      <<SheetN, "Cross-check to BS", SheetBS, "Intangible assets (concessions)", {0}>>,
      <<SheetN, "Current borrowings", SheetBS, "Current borrowings", {0}>>,
      <<SheetN, "Non-current borrowings", SheetBS, "Non-current borrowings", {0}>>,
      <<SheetN, "Total borrowings", SheetBS,
        "Total Borrowings (current + non-current)", {0}>>,
      <<SheetN, "  Interest expense", SheetIS, "Net finance costs", {0}>>,
      <<SheetN, "Profit before tax", SheetIS, "Profit / (Loss) before tax", {0}>>,
      <<SheetN, "Income tax expense", SheetIS, "Income tax (expense) / benefit", {0}>>,
      <<SheetN, "Total distributions paid", SheetCF, "Dividends / distributions paid", {0}>>,
      <<SheetN, "Payout ratio (% of NPAT)", SheetIS, "Net Profit / (Loss) After Tax", {0}>> }

\* The label written in column A of row r of sheet s.
LabelAt(s, r) == cells[s][r][LABEL_COL]

\* Reference r of the formula cell x addresses the line it is intended to.
AddressesIntended(x, r) ==
    \E i \in Intended :
        /\ i[1] = x[1] /\ LabelAt(x[1], x[2]) = Str(i[2])
        /\ i[3] = r.q
        /\ r.row = reg[r.q][i[4]]
        /\ LabelAt(r.q, r.row) = Str(i[4])
        /\ r.col - x[3] \in i[5]

\* C20: in the generated workbook no formula qualifies a reference to its own
\* sheet, every qualified reference names a sheet of the workbook other than
\* the formula's own, and every reference to a statement from another sheet
\* addresses the row the statement's registry gives to the intended line,
\* which is the row where that label is written.
C20_ReferencesAddressRegisteredRows ==
    Generated =>
        \A x \in FormulaCells(cells) :
            \A r \in RefTerms(cells[x[1]][x[2]][x[3]].e) :
                /\ r.q # x[1]
                /\ r.q # "" => \E k \in DOMAIN sheets : sheets[k] = r.q
                /\ r.q \in Statements => AddressesIntended(x, r)

\* Balance Sheet receivables of FY26 read the Income Statement's Total
\* Revenue, the Cash Flow equity issuance of FY26 reads the Balance Sheet's
\* Share capital of FY25, and the Income Statement's EBITDA reads only its
\* own sheet.
C20_Witness ==
    /\ Generated
    /\ X(SheetIS, FC_START, reg[SheetIS]["Total Revenue"])
         \in RefTerms(Cell(SheetBS, "Trade & other receivables", FC_START).e)
    /\ X(SheetBS, HIST_END, reg[SheetBS]["Share capital"])
         \in RefTerms(Cell(SheetCF, "Equity issuance (DRP & placements)", FC_START).e)
    /\ RefTerms(Cell(SheetIS, "EBITDA", FC_START).e)
         = {R(FC_START, reg[SheetIS]["Total Revenue"]),
            R(FC_START, reg[SheetIS]["Total Operating Expenses"])}

(***************************************************************************)
(* Identities between the forecast lines.                                  *)
(***************************************************************************)
\* A calculated value that is a number.
IsNumber(v) == v \notin {Err, Pending, Text}

\* C21: in every forecast period with a nonzero Profit before tax the Notes'
\* Effective tax rate is the Income tax expense divided by the Profit before
\* tax, and equals the line ETR per Assumptions, which is the active
\* effective tax rate of the period.
C21_EffectiveTaxRateMatchesDriver ==
    Opened =>
        \A p \in ForecastPeriods :
            (IsNumber(V(SheetN, "Profit before tax", p))
               /\ V(SheetN, "Profit before tax", p) # 0) =>
                /\ V(SheetN, "ETR per Assumptions", p) = VA(AROW_TAX, p)
                /\ V(SheetN, "Effective tax rate", p)
                     = FDiv(V(SheetN, "Income tax expense", p),
                            V(SheetN, "Profit before tax", p))
                /\ V(SheetN, "Effective tax rate", p) = V(SheetN, "ETR per Assumptions", p)

TotalBorrowings == "Total Borrowings (current + non-current)"

\* C22: in every forecast period Total Operating Expenses is the sum of
\* Employee, Road operating and Corporate & admin costs and equals minus
\* Total Revenue times the active opex %, whatever the employee and road
\* shares are.
C22_OpexMatchesTarget ==
    Opened =>
        \A p \in ForecastPeriods :
            /\ IsNumber(V(SheetIS, "Total Operating Expenses", p))
            /\ V(SheetIS, "Total Operating Expenses", p)
                 = FAdd(FAdd(V(SheetIS, "Employee costs", p),
                             V(SheetIS, "Road operating costs", p)),
                        V(SheetIS, "Corporate & admin costs", p))
            /\ V(SheetIS, "Total Operating Expenses", p)
                 = FSub(0, FMul(V(SheetIS, "Total Revenue", p), VA(AROW_OPEX_PCT, p)))

\* The employee share of FY26 was raised from 25% to 30%, and employee
\* costs follow it.
C22_Witness ==
    /\ Opened
    /\ cells[SheetA][AROW_EMP_SHARE][FC_START] = Num(30, 100)
    /\ V(SheetIS, "Employee costs", FC_START)
         = FSub(0, FMul(FMul(V(SheetIS, "Total Revenue", FC_START),
                             VA(AROW_OPEX_PCT, FC_START)), Q(30, 100)))
    /\ V(SheetIS, "Total Operating Expenses", FC_START) # 0

\* C23: in every forecast period p Total Borrowings is Current plus
\* Non-current borrowings and equals Total Borrowings of p-1 plus the net
\* debt issuance of p, whatever the current-borrowings share is, and its
\* change over the period is the Cash Flow line Proceeds from / (repayment
\* of) borrowings.
C23_BorrowingsReconcile ==
    Opened =>
        \A p \in ForecastPeriods :
            /\ IsNumber(V(SheetBS, TotalBorrowings, p))
            /\ V(SheetBS, TotalBorrowings, p)
                 = FAdd(V(SheetBS, "Current borrowings", p),
                        V(SheetBS, "Non-current borrowings", p))
            /\ V(SheetBS, TotalBorrowings, p)
                 = FAdd(V(SheetBS, TotalBorrowings, p - 1), VA(AROW_NET_DEBT, p))
            /\ FSub(V(SheetBS, TotalBorrowings, p), V(SheetBS, TotalBorrowings, p - 1))
                 = V(SheetCF, "Proceeds from / (repayment of) borrowings", p)

\* The current-borrowings share of FY26 was raised from 5% to 10%, and
\* current borrowings follow it.
C23_Witness ==
    /\ Opened
    /\ cells[SheetA][AROW_CURR_BORROW_PCT][FC_START] = Num(10, 100)
    /\ V(SheetBS, "Current borrowings", FC_START)
         = FMul(V(SheetBS, TotalBorrowings, FC_START), Q(10, 100))
    /\ V(SheetCF, "Proceeds from / (repayment of) borrowings", FC_START) # 0

\* The dividend of period p: DPS times securities on issue over 100.
Dividend(p) == FDiv(FMul(VA(AROW_DPS, p), VA(AROW_SHARES, p)), 100)

\* C25: in every forecast period the Cash Flow line Dividends /
\* distributions paid is minus DPS times securities on issue over 100, and
\* Retained earnings are those of the period before plus the Income
\* Statement's NPAT plus that Cash Flow line.
C25_DividendsReconcile ==
    Opened =>
        \A p \in ForecastPeriods :
            /\ IsNumber(V(SheetCF, "Dividends / distributions paid", p))
            /\ V(SheetCF, "Dividends / distributions paid", p) = FSub(0, Dividend(p))
            /\ V(SheetBS, "Retained earnings / (losses)", p)
                 = FAdd(FAdd(V(SheetBS, "Retained earnings / (losses)", p - 1),
                             V(SheetIS, "Net Profit / (Loss) After Tax", p)),
                        V(SheetCF, "Dividends / distributions paid", p))

\* FY26: 68.0 cents on 2000 m securities is a dividend of 1360.
C25_Witness ==
    /\ Opened
    /\ Dividend(FC_START) = 1360
    /\ V(SheetCF, "Dividends / distributions paid", FC_START) = FSub(0, 1360)
    /\ Cell(SheetBS, "Retained earnings / (losses)", FC_START).k = "f"

\* C28: in every forecast period the Cash Flow line Equity issuance (DRP &
\* placements) is the increase of the Balance Sheet's Share capital over the
\* period.
C28_EquityIssuanceMatchesShareCapital ==
    Opened =>
        \A p \in ForecastPeriods :
            V(SheetCF, "Equity issuance (DRP & placements)", p)
              = FSub(V(SheetBS, "Share capital", p), V(SheetBS, "Share capital", p - 1))

(***************************************************************************)
(* The periods a formula reads.                                            *)
(***************************************************************************)
\* What the forecast cell of the active row a in column c may refer to: the
\* input of its own period, its toggle cell and the inputs of FY23..FY25.
ActiveMayRead(a, c) ==
    {<<SheetA, a.input_row, c>>, <<SheetA, a.toggle_cell[2], a.toggle_cell[1]>>}
    \cup {<<SheetA, a.input_row, k>> : k \in (HIST_END - 2)..HIST_END}

\* C24: every formula sits in the column of a period; on the Income
\* Statement, the Balance Sheet, the Cash Flow Statement and the Notes a
\* formula in the column of period p refers only to cells in the column of p
\* or of p-1, which is a period too, and on the Assumptions sheet the
\* formulas are those of the active rows, whose forecast cells refer to the
\* input of their own period, to their toggle cell and to the inputs of the
\* three last historical periods, and to nothing else.
C24_NoFormulaReadsALaterPeriod ==
    Generated =>
        /\ \A x \in FormulaCells(cells) :
            /\ x[3] \in Periods
            /\ x[1] # SheetA =>
                 \A y \in RefsOfCell(cells, x) : y[3] \in {x[3] - 1, x[3]} \cap Periods
            /\ x[1] = SheetA => \E a \in Drivers : a.row = x[2]
        /\ \A a \in Drivers :
             /\ \A c \in ForecastPeriods :
                  RefsOfCell(cells, <<SheetA, a.row, c>>) = ActiveMayRead(a, c)
             /\ \A c \in HistPeriods :
                  RefsOfCell(cells, <<SheetA, a.row, c>>) = {<<SheetA, a.input_row, c>>}

\* FY26 other investing activities read FY25 of their own line, the FY26
\* Notes opening balance reads the FY25 closing balance, and the FY30 active
\* toll growth reads the FY30 input, the toggle in B5 and the inputs of
\* FY23..FY25.
C24_Witness ==
    /\ Generated
    /\ RefsAt(SheetCF, "Other investing activities", FC_START)
         = {<<SheetCF, reg[SheetCF]["Other investing activities"], HIST_END>>}
    /\ RefsAt(SheetN, "Opening balance", FC_START)
         = {<<SheetN, reg[SheetN]["Closing balance"], HIST_END>>}
    /\ RefsOfCell(cells, <<SheetA, AROW_TOLL_GR, FC_END>>)
         = {<<SheetA, 15, FC_END>>, <<SheetA, 5, UNIT_COL>>,
            <<SheetA, 15, HIST_END - 2>>, <<SheetA, 15, HIST_END - 1>>,
            <<SheetA, 15, HIST_END>>}

(***************************************************************************)
(* Literals and formulas.                                                  *)
(***************************************************************************)
\* The line items of statement s as the run declares them.
ItemsOf(s) ==
    CASE s = SheetIS -> ItemsIS(decl)
      [] s = SheetBS -> ItemsBS(decl)
      [] s = SheetCF -> ItemsCF(decl)
\* The rows of statement s whose line item has a historical series.
SeriesRows(s) ==
    LET items == ItemsOf(s)
    IN {StartRow[s] + i - 1 : i \in {j \in DOMAIN items : items[j].hist # << >>}}

\* C26: on the Income Statement, the Balance Sheet and the Cash Flow
\* Statement every line item with a historical series holds a number in each
\* of the five historical columns and a formula in each of the five forecast
\* columns.
C26_HistoryIsLiteralForecastIsFormula ==
    Generated =>
        \A s \in Statements : \A r \in SeriesRows(s) :
            /\ \A c \in HistPeriods : cells[s][r][c].k = "num"
            /\ \A c \in ForecastPeriods : cells[s][r][c].k = "f"

\* The one line of the statements the script forecasts as a number.
FXRow == <<SheetCF, reg[SheetCF]["FX & other adjustments"]>>

\* C26, as the program has it: every line item with a historical series
\* holds a number in each historical column; in each forecast column it
\* holds a formula, except FX & other adjustments of the Cash Flow
\* Statement, which holds the number 0.
C26_ForecastIsFormulaExceptFX ==
    Generated =>
        \A s \in Statements : \A r \in SeriesRows(s) :
            /\ \A c \in HistPeriods : cells[s][r][c].k = "num"
            /\ \A c \in ForecastPeriods :
                 IF <<s, r>> = FXRow THEN cells[s][r][c] = Whole(0)
                 ELSE cells[s][r][c].k = "f"

\* The FX line has a historical series that is not nil and the number 0 in
\* FY26 and FY30, next to the formula of the closing cash.
C26_Witness ==
    /\ Generated
    /\ FXRow[2] \in SeriesRows(SheetCF)
    /\ Lit(SheetCF, "FX & other adjustments", HIST_END) # 0
    /\ Cell(SheetCF, "FX & other adjustments", FC_START) = Whole(0)
    /\ Cell(SheetCF, "FX & other adjustments", FC_END) = Whole(0)
    /\ Cell(SheetCF, "Closing Cash Balance", FC_START).k = "f"
    /\ Cell(SheetCF, "Capital expenditure", FC_START).k = "f"

(***************************************************************************)
(* What a toggle leaves alone.                                             *)
(***************************************************************************)
\* The step changes the content of the toggle cell of driver a in the opened
\* workbook.
Toggled(a) ==
    /\ pc = "open" /\ pc' = "open"
    /\ cells'[SheetA][a.toggle_cell[2]][a.toggle_cell[1]] # ToggleCell(a)

\* C27: a step that changes the toggle of one driver leaves the active
\* values of the five other drivers as they were, in every period, and
\* leaves the content and the value of every cell of the five historical
\* columns of every sheet as they were.
C27_ToggleChangesItsDriverOnly ==
    [][\A a \in Drivers :
         Toggled(a) =>
            /\ \A b \in Drivers \ {a} :
                 \A c \in Periods : val'[SheetA][b.row][c] = val[SheetA][b.row][c]
            /\ \A s \in SheetNames : \A r \in 1..MaxRow : \A c \in HistPeriods :
                 /\ cells'[s][r][c] = cells[s][r][c]
                 /\ val'[s][r][c] = val[s][r][c]]_vars

\* The driver whose toggle is in row d of the Assumptions sheet.
DriverOf(d) == CHOOSE a \in Drivers : a.toggle_cell[2] = d

\* The last step switched one driver to the trailing average: its active
\* value of FY26 moved, and so did the Income Statement's FY26 profit, while
\* the active values of the other drivers and the FY25 profit did not.
C27_Witness ==
    /\ Opened
    /\ snap.st = "out"
    /\ InAverageMode(DriverOf(snap.d))
    /\ VA(DriverOf(snap.d).row, FC_START) # snap.vals[SheetA][DriverOf(snap.d).row][FC_START]
    /\ \A b \in Drivers \ {DriverOf(snap.d)} :
         VA(b.row, FC_START) = snap.vals[SheetA][b.row][FC_START]
    /\ V(SheetIS, "Net Profit / (Loss) After Tax", FC_START)
         # snap.vals[SheetIS][reg[SheetIS]["Net Profit / (Loss) After Tax"]][FC_START]
    /\ V(SheetIS, "Net Profit / (Loss) After Tax", HIST_END)
         = snap.vals[SheetIS][reg[SheetIS]["Net Profit / (Loss) After Tax"]][HIST_END]

(***************************************************************************)
(* Cells written more than once.                                           *)
(***************************************************************************)
\* The historical series the Notes declare for the row labelled l.
NotesSeries(l) ==
    LET items == ItemsN(decl)
    IN items[CHOOSE i \in DOMAIN items : items[i].label = l].data.v

\* C29: in a generation that ran to completion no cell of any sheet was
\* assigned a value more than once, and every number the Notes declare for
\* the opening balance of the intangible assets is the content of its cell.
C29_EveryCellIsWrittenOnce ==
    Generated =>
        /\ \A s \in SheetNames : \A r \in 1..MaxRow : \A c \in 1..MAX_COL :
             wcount[s][r][c] <= 1
        /\ \A c \in HistPeriods :
             Cell(SheetN, "Opening balance", c)
               = Whole(NotesSeries("Opening balance")[c - HIST_START + 1])

(***************************************************************************)
(* The rows of the Assumptions sheet.                                      *)
(***************************************************************************)
\* Each row constant with the label of the driver its comment names, as the
\* label is written on the Assumptions sheet.
NamedDriver ==
    { <<AROW_TOLL_GR, "Toll revenue growth (active)">>,
      <<AROW_OTHER_GR, "Other revenue growth (active)">>,
      <<AROW_OPEX_PCT, "Opex as % of revenue (active)">>,
      <<AROW_EMP_PCT, "Employee costs as % of revenue">>,
      <<AROW_EMP_SHARE, "Employee costs share of total opex">>,
      <<AROW_ROAD_SHARE, "Road ops share of total opex">>,
      <<AROW_DA_PCT, "D&A as % of NCA (active)">>,
      <<AROW_DA_PPE, "D&A allocation to PP&E">>,
      <<AROW_DA_INTANG, "D&A allocation to intangibles">>,
      <<AROW_COD, "Average cost of debt (active)">>,
      <<AROW_TAX, "Effective tax rate (active)">>,
      <<AROW_STAT_TAX, "Statutory tax rate">>,
      <<AROW_CURR_BORROW_PCT, "Current borrowings as % of total debt">>,
      <<AROW_DRP_RATE, "DRP / dilution rate">>,
      <<AROW_CAPEX, "Capex (maintenance + growth)">>,
      <<AROW_REC_DAYS, "Trade receivables days">>,
      <<AROW_PAY_DAYS, "Trade payables days">>,
      <<AROW_OCA_GR, "Other current assets growth rate">>,
      <<AROW_JV_GR, "JV investments growth rate">>,
      <<AROW_ONCA_GR, "Other NCA growth rate">>,
      <<AROW_OCL_GR, "Other current liabilities growth rate">>,
      <<AROW_ONCL_GR, "Other NCL growth rate">>,
      <<AROW_DPS, "Dividend per security (DPS)">>,
      <<AROW_SHARES, "Securities on issue (approx)">>,
      <<AROW_NET_DEBT, "Net debt issuance / (repayment)">>,
      <<AROW_OTHER_OPS_GR, "Other operating adj. growth rate">>,
      <<AROW_EQUITY_ISS, "Equity issuance rate (DRP)">>,
      <<AROW_CONSTR_GR, "Construction revenue growth">>,
      <<AROW_MAT_1_2, "Debt maturity 1-2yr as % of total">>,
      <<AROW_MAT_2_5, "Debt maturity 2-5yr as % of total">>,
      <<AROW_CAP_BORR, "Capitalised borrowing costs factor">>,
      <<AROW_NON_DED, "Forecast non-deductible amortisation">>,
      <<AROW_TAX_CONC, "Forecast tax concessions">>,
      <<AROW_OTHER_PERM, "Forecast other perm. differences">>,
      <<AROW_CAP_COMMIT, "Capital commitments multiple of capex">>,
      <<AROW_OP_LEASE_GR, "Operating lease growth rate">>,
      <<AROW_CONTINGENT, "Forecast contingent liabilities">> }

\* The rows of the Assumptions sheet that formulas of the other sheets read.
UsedRows ==
    {y[2] : y \in {z \in UNION {RefsOfCell(cells, x) :
                                  x \in {w \in FormulaCells(cells) : w[1] # SheetA}} :
                     z[1] = SheetA}}

\* Each toggled driver: the labels of its active row, of its input row and
\* of its toggle.
ToggledDriver ==
    { <<"Toll revenue growth (active)", "Toll revenue growth (input)",
        "Toll revenue growth method">>,
      <<"Other revenue growth (active)", "Other revenue growth (input)",
        "Other revenue growth method">>,
      <<"Opex as % of revenue (active)", "Opex as % of revenue (input)", "Opex % method">>,
      <<"D&A as % of NCA (active)", "D&A as % of NCA (input)", "D&A % method">>,
      <<"Average cost of debt (active)", "Average cost of debt (input)",
        "Cost of debt method">>,
      <<"Effective tax rate (active)", "Effective tax rate (input)", "Tax rate method">> }

\* C30: every row constant is the row of the Assumptions sheet where the
\* label of the driver it is named after is written, the other sheets read
\* the Assumptions sheet at rows of these constants only, and the IF formula
\* of every active row reads the input row directly above it, which carries
\* the label of the same driver's input, and the toggle cell in column B next
\* to the label of the same driver's method.
C30_RowConstantsNameTheirDrivers ==
    /\ pc # "assumptions" =>
         /\ \A t \in NamedDriver : LabelAt(SheetA, t[1]) = Str(t[2])
         /\ \A a \in Drivers :
              \E t \in ToggledDriver :
                 /\ LabelAt(SheetA, a.row) = Str(t[1])
                 /\ LabelAt(SheetA, a.row - 1) = Str(t[2])
                 /\ LabelAt(SheetA, a.toggle_cell[2]) = Str(t[3])
                 /\ \A c \in ForecastPeriods :
                      cells[SheetA][a.row][c]
                        = F(IfEq(AbsR(UNIT_COL, a.toggle_cell[2]), TOKEN_AVG,
                                 Avg(HIST_END - 2, HIST_END, a.row - 1),
                                 R(c, a.row - 1)))
    /\ Generated =>
         UsedRows = {t[1] : t \in NamedDriver} \ {AROW_EMP_PCT}

\* The Income Statement reads the active toll growth at row 16, the Cash
\* Flow Statement the equity issuance rate at row 57, and the active tax rate
\* of row 37 reads the input of row 36 and the toggle B10.
C30_Witness ==
    /\ Generated
    /\ <<SheetA, AROW_TOLL_GR, FC_START>> \in RefsAt(SheetIS, "Toll revenue", FC_START)
    /\ LabelAt(SheetA, AROW_TOLL_GR) = Str("Toll revenue growth (active)")
    /\ <<SheetA, AROW_EQUITY_ISS, FC_END>>
         \in RefsAt(SheetCF, "Equity issuance (DRP & placements)", FC_END)
    /\ RefsOfCell(cells, <<SheetA, AROW_TAX, FC_START>>)
         = ActiveMayRead(AssumptionAt(AROW_TAX), FC_START)
    /\ LabelAt(SheetA, 10) = Str("Tax rate method")
    /\ AssumptionAt(AROW_TAX).toggle_cell = <<UNIT_COL, 10>>

====
